---- MODULE Spec2Model ----
(***************************************************************************)
(* DX11 post-processing engine (Source/Core/VideoBackends/DX11/            *)
(* PostProcessing.cpp): ApplyShader, InitStages, LoadShaderOptions and     *)
(* BlitFromTexture, with the configuration object they consume; and the    *)
(* texture-encoder text generator (Source/Core/VideoCommon/                *)
(* TextureConversionShaderGL.cpp): GenerateEncodingShader.                 *)
(*                                                                         *)
(* Shader text is a sequence of tokens.  Byte offsets are naturals.        *)
(* Texture coordinates are exact multiples of 1/UVDen: every source size   *)
(* in the model is a power of two, for which float(x) * (1.0f / float(w))  *)
(* is exact, so equality of the floats is equality of these integers.      *)
(***************************************************************************)
EXTENDS Integers, Sequences, FiniteSets, TLC

\* ---------------------------------------------------------------- bounds
\* size of the pool of intermediate-image handles
MaxImages == 3
\* pure packing specification: option lists of at most MaxOpts entries
MaxOpts == 3
\* pure packing specification: vectors of at most MaxCount components
MaxCount == 4
\* generator specification: at most MaxCalls calls of GenerateEncodingShader
MaxCalls == 2
\* the longest stage source, in tokens, of the InitStages specification
MaxText == 6
\* header specification: sample counts 1..MaxSamples
MaxSamples == 8
\* header specification: an argument that the caller did not supply reads
\* as any of 0..MaxVaArg
MaxVaArg == 15
\* swizzle specification: destination widths up to MaxWidth texels and
\* output rows 0..MaxRows-1
MaxWidth == 16
MaxRows == 8

\* ------------------------------------------------------- program constants
\* denominator of the texture coordinates (largest source size of Args)
UVDen == 128
\* constant-buffer register size in bytes: the (x + 15) & ~15 of the source
CBAlign == 16
\* sizeof(int) == sizeof(float)
WordSize == 4

NullImage == 0
NullBuffer == [size |-> 0, words |-> << >>]
\* a word of a freshly created buffer, never written
Unwritten == [opt |-> 0, comp |-> 0, val |-> 0]

\* ------------------------------------------------------------ shader text
s_hlsl_entry == <<"(", "params", ")", "{", "prologue">>

\* std::string::find: the least position >= from where pat occurs, 0 = npos
Find(str, pat, from) ==
  LET hits == {i \in from..(Len(str) - Len(pat) + 1) :
                 SubSeq(str, i, i + Len(pat) - 1) = pat}
  IN IF hits = {} THEN 0 ELSE CHOOSE i \in hits : \A j \in hits : i <= j

\* PatchStage with result.substr(entryPointEnd) as the tail: the brace of
\* the declaration is kept after the block
PatchStageKeepsBrace(result, stage) ==
  LET glslentry == <<"void ", stage.m_stage_entry_point>>
      entryPointStart == Find(result, glslentry, 1)
      entryPointEnd == IF entryPointStart = 0 THEN 0
                       ELSE Find(result, <<"{">>, entryPointStart)
  IN IF entryPointStart = 0 \/ entryPointEnd = 0
     THEN [ok |-> FALSE, text |-> << >>]
     ELSE [ok |-> TRUE,
           text |-> SubSeq(result, 1, entryPointStart + Len(glslentry) - 1)
                    \o s_hlsl_entry
                    \o SubSeq(result, entryPointEnd, Len(result))]

\* one iteration of the loop of InitStages; << >> is the empty text
PatchStage(result, stage) ==
  LET glslentry == <<"void ", stage.m_stage_entry_point>>
      entryPointStart == Find(result, glslentry, 1)
      entryPointEnd == IF entryPointStart = 0 THEN 0
                       ELSE Find(result, <<"{">>, entryPointStart)
  IN IF entryPointStart = 0 \/ entryPointEnd = 0
     THEN [ok |-> FALSE, text |-> << >>]
     ELSE [ok |-> TRUE,
           text |-> SubSeq(result, 1, entryPointStart + Len(glslentry) - 1)
                    \o s_hlsl_entry
                    \o SubSeq(result, entryPointEnd + 1, Len(result))]

RECURSIVE InitStagesLoop(_, _, _)
InitStagesLoop(result, stages, k) ==
  IF k > Len(stages) THEN result
  ELSE LET r == PatchStage(result, stages[k])
       IN IF r.ok THEN InitStagesLoop(r.text, stages, k + 1) ELSE << >>

\* the text returned by InitStages(code)
InitStages(code, stages) == InitStagesLoop(code, stages, 1)

\* a resize that leaves the list as it is
ResizeNever(s, n, null) == s

\* m_pshader.resize(n): keeps the first n entries, appends null entries
Resize(s, n, null) == [i \in 1..n |-> IF i <= Len(s) THEN s[i] ELSE null]

\* ---------------------------------------------------- option-buffer layout
Align16(x) == ((x + (CBAlign - 1)) \div CBAlign) * CBAlign

needed_size(opt) ==
  IF opt.m_type = "OPTION_BOOL" THEN WordSize ELSE WordSize * opt.count

\* LayoutStep without lines 683-687: no padding is inserted
LayoutStepNoPadding(buffer_size, needed) ==
  [at |-> buffer_size, next |-> buffer_size + needed]

\* LayoutStep with <= for <: an entry that exactly fills the register is
\* pushed to the next one
LayoutStepNoExactFit(buffer_size, needed) ==
  LET remaining == Align16(buffer_size) - buffer_size
  IN [at |-> IF remaining <= needed THEN buffer_size + remaining
             ELSE buffer_size,
      next |-> (IF remaining <= needed THEN buffer_size + remaining
                ELSE buffer_size) + needed]

\* the offset after one option, starting from buffer_size
\* (LoadShaderOptions, lines 682-688)
LayoutStep(buffer_size, needed) ==
  LET remaining == Align16(buffer_size) - buffer_size
  IN [at |-> IF remaining < needed THEN buffer_size + remaining
             ELSE buffer_size,
      next |-> (IF remaining < needed THEN buffer_size + remaining
                ELSE buffer_size) + needed]

RECURSIVE LayoutOffsets(_, _, _)
\* the byte offset the layout walk assigns to each option from index k on
LayoutOffsets(opts, k, buffer_size) ==
  IF k > Len(opts) THEN << >>
  ELSE LET s == LayoutStep(buffer_size, needed_size(opts[k]))
       IN <<s.at>> \o LayoutOffsets(opts, k + 1, s.next)

RECURSIVE LayoutTotal(_, _, _)
\* buffer_size at the end of the layout walk
LayoutTotal(opts, k, buffer_size) ==
  IF k > Len(opts) THEN buffer_size
  ELSE LayoutTotal(opts, k + 1,
                   LayoutStep(buffer_size, needed_size(opts[k])).next)

\* the upload loop of BlitFromTexture (lines 124-152): the value is written
\* at dstdata first, then the padding and the size are added
UploadStep(buffer_size, needed) ==
  LET remaining == Align16(buffer_size) - buffer_size
  IN [at |-> buffer_size,
      next |-> (IF remaining < needed THEN buffer_size + remaining
                ELSE buffer_size) + needed]

RECURSIVE UploadOffsets(_, _, _)
\* the byte offset at which the upload loop stores each option's value
UploadOffsets(opts, k, buffer_size) ==
  IF k > Len(opts) THEN << >>
  ELSE LET s == UploadStep(buffer_size, needed_size(opts[k]))
       IN <<s.at>> \o UploadOffsets(opts, k + 1, s.next)

\* ------------------------------------------------- configuration (presets)
\* a StageDescriptor; m_inputs holds 0-based stage indices; m_outputScale
\* is the rational scale[1] / scale[2]
Stage(entry, inputs, use_src, scale) ==
  [m_stage_entry_point |-> entry, m_inputs |-> inputs,
   m_use_source_resolution |-> use_src, m_outputScale |-> scale]

\* a ConfigurationOption as loaded: value 0, dirty
Option(name, type, count) ==
  [name |-> name, m_type |-> type, count |-> count, val |-> 0,
   m_dirty |-> TRUE]

\* the preset identifiers; "" is "no post-processing"
Presets == {"", "one", "three", "four", "noentry", "failb"}

s_default_shader == <<"void ", "main", "(", ")", "{", "body", "}">>

\* the raw stage source of each preset
PresetCode(p) ==
  CASE p = "" -> s_default_shader
    [] p = "one" -> <<"void ", "main", "(", ")", "{", "body", "}">>
    [] p = "three" -> <<"void ", "a", "(", ")", "{", "body_a", "}",
                        "void ", "b", "(", ")", "{", "body_b", "}",
                        "void ", "main", "(", ")", "{", "body_c", "}">>
    [] p = "four" -> <<"void ", "a", "(", ")", "{", "body_a", "}",
                       "void ", "main", "(", ")", "{", "body_m", "}">>
    [] p = "noentry" -> <<"void ", "a", "(", ")", "{", "body_a", "}">>
    [] p = "failb" -> <<"void ", "a", "(", ")", "{", "body_a", "}",
                        "void ", "b", "(", ")", "{", "err", "b", "}">>

\* the stage list of each preset
PresetStages(p) ==
  CASE p = "" -> <<Stage("main", << >>, FALSE, <<1, 1>>)>>
    [] p = "one" -> <<Stage("main", << >>, FALSE, <<1, 1>>)>>
    [] p = "three" -> <<Stage("a", << >>, TRUE, <<1, 1>>),
                        Stage("b", <<0>>, FALSE, <<1, 2>>),
                        Stage("main", <<0, 1>>, FALSE, <<1, 1>>)>>
    [] p = "four" -> <<Stage("a", << >>, FALSE, <<1, 1>>),
                       Stage("main", <<0, 0, 0, 0>>, FALSE, <<1, 1>>)>>
    [] p = "noentry" -> <<Stage("a", << >>, FALSE, <<1, 1>>),
                          Stage("b", <<0>>, FALSE, <<1, 1>>)>>
    [] p = "failb" -> <<Stage("a", << >>, FALSE, <<1, 1>>),
                        Stage("b", <<0>>, FALSE, <<1, 1>>)>>

\* the option map of each preset, in map-iteration order
PresetOptions(p) ==
  CASE p = "" -> << >>
    [] p = "one" -> <<Option("a", "OPTION_BOOL", 1)>>
    [] p = "three" -> <<Option("k", "OPTION_INTEGER", 2),
                        Option("v", "OPTION_FLOAT", 3)>>
    [] p = "four" -> << >>
    [] p = "noentry" -> <<Option("a", "OPTION_BOOL", 1)>>
    [] p = "failb" -> << >>

\* LoadShader that leaves the configuration clean
LoadShaderKeepsClean(active) ==
  [shader |-> active, stages |-> PresetStages(active),
   options |-> PresetOptions(active),
   dirty |-> FALSE]

\* PostProcessingShaderConfiguration::LoadShader(): loads the preset that is
\* active, replacing the stage list and the option map
LoadShader(active) ==
  [shader |-> active, stages |-> PresetStages(active),
   options |-> PresetOptions(active),
   dirty |-> TRUE]

HasOptions(cfg) == Len(cfg.options) > 0

\* D3D::CompileAndCreatePixelShader(code, nullptr, entry): a program, or
\* null when the text has no patched function of that name or the function
\* does not compile
CompileAndCreatePixelShader(code, entry) ==
  IF Find(code, <<"void ", entry>> \o s_hlsl_entry, 1) # 0
     /\ Find(code, <<"err", entry>>, 1) = 0
  THEN [entry |-> entry, code |-> code]
  ELSE [entry |-> "", code |-> << >>]

NullPShader == [entry |-> "", code |-> << >>]

\* ---------------------------------------------------- LoadShaderOptions
OptionDecl(opt) ==
  IF opt.m_type = "OPTION_BOOL" THEN <<"int", opt.name>>
  ELSE IF opt.m_type = "OPTION_INTEGER"
       THEN <<(IF opt.count < 2 THEN "int"
               ELSE "int" \o ToString(opt.count)), opt.name>>
       ELSE <<(IF opt.count < 2 THEN "float"
               ELSE "float" \o ToString(opt.count)), opt.name>>

RECURSIVE OptionDecls(_, _)
OptionDecls(opts, k) ==
  IF k > Len(opts) THEN << >>
  ELSE OptionDecl(opts[k]) \o OptionDecls(opts, k + 1)

\* the return value and the buffer of LoadShaderOptions, given the
\* buffer_size its walk ended with (lines 690-714)
OptionsResult(code, cfg, s, buffer_size) ==
  [text |-> (IF s = 1 THEN <<"s_hlsl_header">>
             ELSE <<"s_hlsl_header_MSAA", ToString(s)>>)
            \o <<"s_hlsl_interface">>
            \o (IF HasOptions(cfg) /\ buffer_size > 0
                THEN <<"cbuffer OptionBuffer {">>
                     \o OptionDecls(cfg.options, 1) \o <<"}">>
                ELSE << >>)
            \o code,
   m_options |->
     IF HasOptions(cfg) /\ buffer_size > 0
     THEN [size |-> Align16(buffer_size),
           words |-> [i \in 1..(Align16(buffer_size) \div WordSize)
                        |-> Unwritten]]
     ELSE NullBuffer]

\* the text and the option buffer LoadShaderOptions(code) produces for
\* configuration cfg and sample count s
LoadShaderOptions(code, cfg, s) ==
  OptionsResult(code, cfg, s, LayoutTotal(cfg.options, 1, 0))

\* ------------------------------------------------------------------ state
VARIABLES
  sPostProcessingShader,    \* g_Config / g_ActiveConfig.sPostProcessingShader
  iMultisampleCount,        \* D3D::GetAAMode(iMultisampleMode).Count
  m_config,                 \* [shader, stages, options, dirty]
  m_initialized, m_prev_samples,
  m_prev_dst_width, m_prev_dst_height, m_prev_src_width, m_prev_src_height,
  m_stageOutput,            \* sequence of image handles
  m_pshader,                \* sequence of programs
  m_options,                \* the option buffer, or NullBuffer
  m_vertex_buffer_observer,
  puv,                      \* <<pu0, pu1, pv0, pv1>>
  images,                   \* the device's images: handle -> [live, w, h]
  last,                     \* what the last operation did
  hist,                     \* history: the last allocation, the last draw,
                            \* a fallback since the user's last selection
  optlist,                  \* packing specification: the option list
  packing,                  \* packing specification: the offsets computed
  alive,                    \* the engine object exists
  patch,                    \* InitStages specification: input and result
  calc,                     \* pure-function specifications: input, result
  text,                     \* static char text[16384]
  IntensityConstantAdded,   \* static bool IntensityConstantAdded
  gen,                      \* the calls of GenerateEncodingShader so far
  thr                       \* the threads inside GenerateEncodingShader

vars == <<sPostProcessingShader, iMultisampleCount, m_config, m_initialized,
          m_prev_samples, m_prev_dst_width, m_prev_dst_height,
          m_prev_src_width, m_prev_src_height, m_stageOutput, m_pshader,
          m_options, m_vertex_buffer_observer, puv, images, last, hist,
          optlist, packing, alive, patch, calc, text,
          IntensityConstantAdded,
          gen, thr>>

\* the variables of the text generator
genvars == <<text, IntensityConstantAdded, gen, thr>>

\* the render target bound by the caller of BlitFromTexture
DestRTV == MaxImages + 1

\* the views of the caller's source colour and source depth textures
SrcTexture == MaxImages + 2
DepthTexture == MaxImages + 3

\* the pixel-shader texture slots the function binds: 9 and 10 the source
\* colour and depth, 11..14 the inputs of a stage
TextureSlots == 9..14
NoSlots == [s \in TextureSlots |-> NullImage]

\* the anti-aliasing sample counts the user can select
AACounts == {1, 4}

\* the values the user can give an option (each of its components)
OptionValues == {0, 1}

Rect(l, t, r, b) == [left |-> l, top |-> t, right |-> r, bottom |-> b]
GetWidth(rc) == IF rc.right >= rc.left THEN rc.right - rc.left
                ELSE rc.left - rc.right
GetHeight(rc) == IF rc.bottom >= rc.top THEN rc.bottom - rc.top
                 ELSE rc.top - rc.bottom

\* the argument tuples of BlitFromTexture; gamma is the fraction
\* gamma[1] / gamma[2]
Args ==
  { [src |-> Rect(0, 0, 64, 64), dst |-> Rect(0, 0, 128, 128),
     src_width |-> 64, src_height |-> 64, layer |-> 0, gamma |-> <<22, 10>>,
     src_texture_depth |-> DepthTexture],
    [src |-> Rect(0, 0, 128, 128), dst |-> Rect(0, 0, 128, 128),
     src_width |-> 128, src_height |-> 128, layer |-> 0,
     gamma |-> <<1, 1>>, src_texture_depth |-> NullImage],
    [src |-> Rect(0, 0, 32, 64), dst |-> Rect(16, 16, 144, 144),
     src_width |-> 64, src_height |-> 64, layer |-> 1, gamma |-> <<22, 10>>,
     src_texture_depth |-> NullImage],
    [src |-> Rect(0, 0, 64, 64), dst |-> Rect(0, 0, 256, 128),
     src_width |-> 64, src_height |-> 64, layer |-> 0, gamma |-> <<1, 1>>,
     src_texture_depth |-> DepthTexture] }

\* <<u0, u1, v0, v1>> in units of 1/UVDen (lines 160-165)
UV(a) ==
  <<(a.src.left * UVDen) \div a.src_width,
    (a.src.right * UVDen) \div a.src_width,
    (a.src.top * UVDen) \div a.src_height,
    (a.src.bottom * UVDen) \div a.src_height>>

\* FrameParams with the size of the source rectangle as the resolution
FrameParamsOfRect(a) ==
  [native_gamma |-> <<a.gamma[2], a.gamma[1]>>,
   Layer |-> a.layer,
   resolution |-> <<GetWidth(a.src), GetHeight(a.src),
                    <<1, GetWidth(a.src)>>, <<1, GetHeight(a.src)>>>>,
   targetscale |-> <<<<a.src.left, a.src_width>>,
                     <<a.src.top, a.src_height>>,
                     <<a.src_width, a.src.right - a.src.left>>,
                     <<a.src_height, a.src.bottom - a.src.top>>>>]

\* params as lines 156-175 fill it, a fraction n / d written <<n, d>>:
\* native_gamma = 1 / gamma, resolution = (src_width, src_height, sw, sh),
\* targetscale = (u0, v0, 1 / (u1 - u0), 1 / (v1 - v0)).  Time is read from
\* the timer and padding is never written; neither is part of the record.
FrameParams(a) ==
  [native_gamma |-> <<a.gamma[2], a.gamma[1]>>,
   Layer |-> a.layer,
   resolution |-> <<a.src_width, a.src_height,
                    <<1, a.src_width>>, <<1, a.src_height>>>>,
   targetscale |-> <<<<a.src.left, a.src_width>>,
                     <<a.src.top, a.src_height>>,
                     <<a.src_width, a.src.right - a.src.left>>,
                     <<a.src_height, a.src.bottom - a.src.top>>>>]

\* the content of m_params before the first upload
NoParams ==
  [native_gamma |-> <<0, 1>>, Layer |-> 0,
   resolution |-> <<0, 0, <<0, 1>>, <<0, 1>>>>,
   targetscale |-> <<<<0, 1>>, <<0, 1>>, <<0, 1>>, <<0, 1>>>>]

NoImage == [live |-> FALSE, w |-> 0, h |-> 0]

NoOp == [op |-> "none", recompiled |-> FALSE, fallback |-> FALSE,
         loads |-> 0, compiles |-> 0, applyReleased |-> 0,
         uploads |-> 0, geometry |-> 0, reallocs |-> 0, draws |-> << >>,
         args |-> << >>, events |-> << >>,
         params |-> NoParams, paramUploads |-> 0,
         bindings |-> << >>, bound |-> NoSlots]

NoHist == [drawn |-> FALSE, uv |-> <<0, 0, 0, 0>>,
           dst_width |-> 0, dst_height |-> 0,
           src_width |-> 0, src_height |-> 0, stages |-> 0,
           fallback |-> FALSE]

NoPacking == [done |-> FALSE, layout |-> << >>, upload |-> << >>,
              total |-> 0, m_options |-> NullBuffer, maps |-> FALSE]

NoPatch == [code |-> << >>, stages |-> << >>, done |-> FALSE,
            result |-> << >>]

NoCalc == [fn |-> "none", done |-> FALSE]

\* the static buffer before the first call: every byte is zero.  bytes are
\* the bytes from offset 0 up to the last byte ever written, nul the offsets
\* among them that hold a zero byte (the string has a blank there), canary
\* the byte at offset sizeof(text) - 1
FreshText == [bytes |-> "", nul |-> {}, canary |-> 0]

\* the threads that may call GenerateEncodingShader
Threads == {1, 2}

IdleThread == [pc |-> "idle", format |-> "", k |-> 0, p |-> 0,
               alerts |-> {}, ret |-> ""]

\* the generator before its first call (lines 21-22)
GeneratorInit ==
  /\ text = FreshText
  /\ IntensityConstantAdded = FALSE
  /\ gen = << >>
  /\ thr = [t \in Threads |-> IdleThread]

\* the state of the engine after its constructor (lines 62-93)
EngineInit ==
  /\ alive = TRUE
  /\ sPostProcessingShader = ""
  /\ iMultisampleCount = 1
  /\ m_config = [shader |-> "", stages |-> << >>, options |-> << >>,
                 dirty |-> FALSE]
  /\ m_initialized = FALSE
  /\ m_prev_samples = 0
  /\ m_prev_dst_width = 0 /\ m_prev_dst_height = 0
  /\ m_prev_src_width = 0 /\ m_prev_src_height = 0
  /\ m_stageOutput = << >>
  /\ m_pshader = << >>
  /\ m_options = NullBuffer
  /\ m_vertex_buffer_observer = TRUE
  \* pu0..pv1 are not initialized by the constructor
  /\ puv \in {UV(a) : a \in Args} \cup {<<0, 0, 0, 0>>}
  /\ images = [i \in 1..MaxImages |-> NoImage]
  /\ last = NoOp
  /\ hist = NoHist

Init ==
  /\ EngineInit
  /\ GeneratorInit
  /\ optlist = << >>
  /\ packing = NoPacking
  /\ patch = NoPatch
  /\ calc = NoCalc

\* ------------------------------------------------------------ ApplyShader
\* the device calls that acquire or give up a resource, in the order the
\* code makes them: image h released or created, the program of slot i
\* released or created; g tells the compilations of one call apart (0 = held
\* when the call began, 1 = the compile loop, 2 = the fallback)
ImageEvent(ev, h) == [ev |-> ev, kind |-> "image", id |-> h, gen |-> 0]
ProgramEvent(ev, i, g) == [ev |-> ev, kind |-> "program", id |-> i, gen |-> g]

\* m_stageOutput[i]->Release() for every i (lines 347-351, 234-238, 97-100)
ReleaseImages(so) == [k \in 1..Len(so) |-> ImageEvent("release", so[k])]

\* one event for every slot of pshader that holds a program
ProgramEvents(ev, pshader, g) ==
  SelectSeq([i \in 1..Len(pshader) |->
               ProgramEvent(IF pshader[i] # NullPShader THEN ev ELSE "none",
                            i, g)],
            LAMBDA e : e.ev # "none")

\* ReleaseAll that skips the first image held
ReleaseAllButFirst(imgs, so) ==
  [i \in DOMAIN imgs |->
     IF \E k \in 2..Len(so) : so[k] = i THEN NoImage ELSE imgs[i]]

\* the handles of sequence so released on the device
ReleaseAll(imgs, so) ==
  [i \in DOMAIN imgs |->
     IF \E k \in 1..Len(so) : so[k] = i THEN NoImage ELSE imgs[i]]

\* ShaderUnchanged without the comparison of the sample counts
ShaderUnchangedAnySamples ==
  /\ m_initialized
  /\ m_config.shader = sPostProcessingShader

\* the early return of ApplyShader (line 344): the shader did not change
ShaderUnchanged ==
  /\ m_initialized
  /\ m_config.shader = sPostProcessingShader
  /\ m_prev_samples = iMultisampleCount

\* lines 359-361 for preset p and sample count s: the configuration
\* loaded, and the text to compile with the option buffer created
Assemble(p, s) ==
  [m_config |-> LoadShader(p),
   lso |-> LoadShaderOptions(InitStages(PresetCode(p), PresetStages(p)),
                             LoadShader(p), s)]

\* Assemble, evaluated once for every preset and sample count
Assembled == [p \in Presets |-> [s \in AACounts |-> Assemble(p, s)]]

\* the result of compiling each stage of preset p (line 368)
Programs ==
  [p \in Presets |-> [s \in AACounts |->
     [i \in 1..Len(PresetStages(p)) |->
        CompileAndCreatePixelShader(
          Assembled[p][s].lso.text,
          PresetStages(p)[i].m_stage_entry_point)]]]

\* the program of the fallback (line 388), compiled for the entry "main"
\* the fallback program compiled from the raw default source, without
\* InitStages
FallbackProgramRaw ==
  [s \in AACounts |->
     [entry |-> "main",
      code |-> LoadShaderOptions(PresetCode(""), LoadShader(""), s).text]]

\* the program line 388 compiles from the text line 387 assembles
FallbackProgram ==
  [s \in AACounts |->
     CompileAndCreatePixelShader(Assembled[""][s].lso.text, "main")]

\* the compile loop (lines 366-375): 0 when every stage compiled, else the
\* 1-based position of the first stage that failed
FirstFailure(programs) ==
  LET bad == {i \in 1..Len(programs) : programs[i] = NullPShader}
  IN IF bad = {} THEN 0 ELSE CHOOSE i \in bad : \A j \in bad : i <= j

\* m_pshader after the compile loop: the programs of the stages before the
\* failing one, null at the failing one, untouched after it
CompileStages(programs, pshader, fail) ==
  [i \in 1..Len(pshader) |->
     IF i <= Len(programs) /\ (fail = 0 \/ i < fail) THEN programs[i]
     ELSE IF i <= Len(programs) /\ i = fail THEN NullPShader
     ELSE pshader[i]]

\* Fallback without lines 380-381: the preset selection is kept
FallbackKeepsPreset(asm, program, compiled, fail) ==
  [active |-> sPostProcessingShader,
   m_config |-> asm.m_config,
   m_options |-> asm.lso.m_options,
   m_pshader |->
     [Resize(Resize([i \in 1..Len(compiled) |-> NullPShader], 1,
                    NullPShader),
             Len(asm.m_config.stages), NullPShader)
        EXCEPT ![1] = program],
   m_initialized |-> TRUE,
   fallback |-> TRUE, loads |-> 2, compiles |-> fail + 1,
   events |-> ProgramEvents("create", compiled, 1)
              \o ProgramEvents("release", compiled, 1)
              \o <<ProgramEvent("create", 1, 2)>>]

\* Fallback without line 389: the failure of the compile loop is kept
FallbackKeepsFailure(asm, program, compiled, fail) ==
  [active |-> "",
   m_config |-> asm.m_config,
   m_options |-> asm.lso.m_options,
   m_pshader |->
     [Resize(Resize([i \in 1..Len(compiled) |-> NullPShader], 1,
                    NullPShader),
             Len(asm.m_config.stages), NullPShader)
        EXCEPT ![1] = program],
   m_initialized |-> FALSE,
   fallback |-> TRUE, loads |-> 2, compiles |-> fail + 1,
   events |-> ProgramEvents("create", compiled, 1)
              \o ProgramEvents("release", compiled, 1)
              \o <<ProgramEvent("create", 1, 2)>>]

\* Fallback without the reload of line 387: the configuration of the
\* broken preset is kept
FallbackKeepsConfig(asm, program, compiled, fail) ==
  [active |-> "",
   m_config |-> Assembled[sPostProcessingShader][iMultisampleCount].m_config,
   m_options |-> asm.lso.m_options,
   m_pshader |->
     [Resize(Resize([i \in 1..Len(compiled) |-> NullPShader], 1,
                    NullPShader),
             Len(asm.m_config.stages), NullPShader)
        EXCEPT ![1] = program],
   m_initialized |-> TRUE,
   fallback |-> TRUE, loads |-> 2, compiles |-> fail + 1,
   events |-> ProgramEvents("create", compiled, 1)
              \o ProgramEvents("release", compiled, 1)
              \o <<ProgramEvent("create", 1, 2)>>]

\* the fallback branch (lines 377-390): asm is what line 387 assembles
\* after the preset is cleared, program what line 388 compiles, compiled
\* the program list the compile loop left when stage fail failed
Fallback(asm, program, compiled, fail) ==
  [active |-> "",
   m_config |-> asm.m_config,
   m_options |-> asm.lso.m_options,
   m_pshader |->
     [Resize(Resize([i \in 1..Len(compiled) |-> NullPShader], 1,
                    NullPShader),
             Len(asm.m_config.stages), NullPShader)
        EXCEPT ![1] = program],
   m_initialized |-> TRUE,
   fallback |-> TRUE, loads |-> 2, compiles |-> fail + 1,
   events |-> ProgramEvents("create", compiled, 1)
              \o ProgramEvents("release", compiled, 1)
              \o <<ProgramEvent("create", 1, 2)>>]

\* lines 359-390 for sample count s: asm and programs are what the active
\* preset assembles and compiles to, fail the first failing stage, pshader
\* the program list after the resize of InitStages
CompileOrFallback(s, asm, programs, fail, pshader) ==
  IF fail = 0
  THEN [active |-> sPostProcessingShader,
        m_config |-> asm.m_config,
        m_options |-> asm.lso.m_options,
        m_pshader |-> CompileStages(programs, pshader, fail),
        m_initialized |-> TRUE,
        fallback |-> FALSE, loads |-> 1, compiles |-> Len(programs),
        events |-> ProgramEvents("create",
                                 CompileStages(programs, pshader, fail), 1)]
  ELSE Fallback(Assembled[""][s], FallbackProgram[s],
                CompileStages(programs, pshader, fail), fail)

\* the state after the recompilation sequence, r being the outcome of
\* lines 359-390 (lines 346-357 release the images and the programs)
Recompiled(s, r) ==
  [active |-> r.active, m_config |-> r.m_config,
   m_initialized |-> r.m_initialized,
   m_prev_samples |-> s,
   m_stageOutput |-> << >>,
   images |-> ReleaseAll(images, m_stageOutput),
   m_pshader |-> r.m_pshader, m_options |-> r.m_options,
   recompiled |-> TRUE, fallback |-> r.fallback, loads |-> r.loads,
   compiles |-> r.compiles, applyReleased |-> Len(m_stageOutput),
   events |-> ReleaseImages(m_stageOutput)
              \o ProgramEvents("release", m_pshader, 0)
              \o r.events]

\* the recompilation sequence of ApplyShader (lines 346-390)
Recompile ==
  Recompiled(
    iMultisampleCount,
    CompileOrFallback(
      iMultisampleCount,
      Assembled[sPostProcessingShader][iMultisampleCount],
      Programs[sPostProcessingShader][iMultisampleCount],
      FirstFailure(Programs[sPostProcessingShader][iMultisampleCount]),
      Resize([i \in 1..Len(m_pshader) |-> NullPShader],
             Len(PresetStages(sPostProcessingShader)), NullPShader)))

\* the whole of ApplyShader, from the current state
ApplyShader ==
  IF ShaderUnchanged
  THEN [active |-> sPostProcessingShader, m_config |-> m_config,
        m_initialized |-> m_initialized, m_prev_samples |-> m_prev_samples,
        m_stageOutput |-> m_stageOutput, images |-> images,
        m_pshader |-> m_pshader, m_options |-> m_options,
        recompiled |-> FALSE, fallback |-> FALSE, loads |-> 0,
        compiles |-> 0, applyReleased |-> 0, events |-> << >>]
  ELSE Recompile

\* --------------------------------------------------------- BlitFromTexture
\* the words of the option buffer after option k (1-based) with n words is
\* written at byte offset at
WriteWords(words, at, k, n, v) ==
  [i \in DOMAIN words |->
     IF i > at \div WordSize /\ i <= at \div WordSize + n
     THEN [opt |-> k, comp |-> i - at \div WordSize, val |-> v]
     ELSE words[i]]

RECURSIVE UploadLoop(_, _, _, _)
\* the upload loop (lines 124-152) over the options from index k on
UploadLoop(words, opts, k, buffer_size) ==
  IF k > Len(opts) THEN words
  ELSE LET needed == needed_size(opts[k])
           st == UploadStep(buffer_size, needed)
       IN UploadLoop(WriteWords(words, st.at, k, needed \div WordSize,
                                opts[k].val),
                     opts, k + 1, st.next)

\* the condition of the option upload (line 119)
UploadNeeded(cfg) == cfg.dirty /\ HasOptions(cfg)

\* AfterUpload without line 154: the configuration stays dirty
AfterUploadKeepsDirty(cfg) ==
  [cfg EXCEPT !.options = [k \in 1..Len(cfg.options) |->
                             [cfg.options[k] EXCEPT !.m_dirty = FALSE]]]

\* the configuration after the upload: lines 151 and 154
AfterUpload(cfg) ==
  [cfg EXCEPT !.dirty = FALSE,
              !.options = [k \in 1..Len(cfg.options) |->
                             [cfg.options[k] EXCEPT !.m_dirty = FALSE]]]

\* GeometryNeeded without the observer flag
GeometryNeededNoObserver(observer, prev, uv) == prev # uv

\* the condition of the geometry upload (line 186)
GeometryNeeded(observer, prev, uv) == observer \/ prev # uv

\* ReallocNeeded without the comparison of the image count (line 228)
ReallocNeededNoCount(finalstage, a, so) ==
  /\ finalstage > 0
  /\ \/ m_prev_dst_width # GetWidth(a.dst)
     \/ m_prev_dst_height # GetHeight(a.dst)
     \/ m_prev_src_width # GetWidth(a.src)
     \/ m_prev_src_height # GetHeight(a.src)

\* ReallocNeeded without the comparison of the destination width (line 224)
ReallocNeededNoWidth(finalstage, a, so) ==
  /\ finalstage > 0
  /\ \/ m_prev_dst_height # GetHeight(a.dst)
     \/ m_prev_src_width # GetWidth(a.src)
     \/ m_prev_src_height # GetHeight(a.src)
     \/ Len(so) # finalstage

\* the condition of the reallocation (lines 223-228)
ReallocNeeded(finalstage, a, so) ==
  /\ finalstage > 0
  /\ \/ m_prev_dst_width # GetWidth(a.dst)
     \/ m_prev_dst_height # GetHeight(a.dst)
     \/ m_prev_src_width # GetWidth(a.src)
     \/ m_prev_src_height # GetHeight(a.src)
     \/ Len(so) # finalstage

\* D3DTexture2D::Create: the least handle that is not live, 0 when none
FreeHandle(imgs) ==
  LET free == {i \in DOMAIN imgs : ~imgs[i].live}
  IN IF free = {} THEN NullImage
     ELSE CHOOSE i \in free : \A j \in free : i <= j

\* the size of the image of stage st (lines 242-245)
StageSize(st, a) ==
  [w |-> ((IF st.m_use_source_resolution THEN GetWidth(a.src)
           ELSE GetWidth(a.dst)) * st.m_outputScale[1])
         \div st.m_outputScale[2],
   h |-> ((IF st.m_use_source_resolution THEN GetHeight(a.src)
           ELSE GetHeight(a.dst)) * st.m_outputScale[1])
         \div st.m_outputScale[2]]

RECURSIVE CreateOutputs(_, _, _, _, _)
\* the creation loop (lines 240-252): [images, m_stageOutput] after the
\* images of the stages from index i (1-based) to finalstage are created
CreateOutputs(imgs, so, stages, i, a) ==
  IF i > Len(so) THEN [images |-> imgs, m_stageOutput |-> so]
  ELSE LET h == FreeHandle(imgs)
           sz == StageSize(stages[i], a)
       IN CreateOutputs(
            IF h = NullImage THEN imgs
            ELSE [imgs EXCEPT ![h] = [live |-> TRUE, w |-> sz.w, h |-> sz.h]],
            [so EXCEPT ![i] = h], stages, i + 1, a)

\* Reallocate with the creation loop before the release loop
ReallocateCreatesFirst(imgs, so, stages, a) ==
  LET out == CreateOutputs(imgs, [i \in 1..(Len(stages) - 1) |-> NullImage],
                           stages, 1, a)
  IN [images |-> ReleaseAll(out.images, so),
      m_stageOutput |-> out.m_stageOutput,
      events |-> [k \in 1..Len(out.m_stageOutput) |->
                    ImageEvent("create", out.m_stageOutput[k])]
                 \o ReleaseImages(so)]

\* the reallocation (lines 234-252): the images held are released, then
\* one image is created for every stage but the last
Reallocate(imgs, so, stages, a) ==
  LET out == CreateOutputs(ReleaseAll(imgs, so),
                           [i \in 1..(Len(stages) - 1) |-> NullImage],
                           stages, 1, a)
  IN [images |-> out.images,
      m_stageOutput |-> out.m_stageOutput,
      events |-> ReleaseImages(so)
                 \o [k \in 1..Len(out.m_stageOutput) |->
                       ImageEvent("create", out.m_stageOutput[k])]]

\* FinalTarget without lines 260-264: the final stage keeps the target bound
FinalTargetKeepsBound(finalstage, bound) == bound

\* the render target of the final stage (lines 258-266): OutRTV when it was
\* fetched, else the target left bound by what preceded
FinalTarget(finalstage, bound) ==
  IF finalstage > 0 THEN DestRTV ELSE bound

\* m_stageOutput[i] (0-based i); an index out of range yields no image
OutputAt(so, i) == IF i + 1 \in 1..Len(so) THEN so[i + 1] ELSE NullImage

\* m_pshader[i] (0-based i); an index out of range yields no program
PShaderAt(pshader, i) ==
  IF i + 1 \in 1..Len(pshader) THEN pshader[i + 1] ELSE NullPShader

\* StageInputs with the inputs taken from the stage's own position on:
\* m_stageOutput[i + m_inputs[stageidx]]
StageInputsShifted(prev_stage_output_required, st, so) ==
  IF prev_stage_output_required
  THEN [k \in 1..Len(st.m_inputs) |-> OutputAt(so, st.m_inputs[k] + 1)]
  ELSE << >>

\* the previous-stage textures bound for the draw of stage st (lines
\* 278-285): views[2 + stageidx] = m_stageOutput[m_inputs[stageidx]]
StageInputs(prev_stage_output_required, st, so) ==
  IF prev_stage_output_required
  THEN [k \in 1..Len(st.m_inputs) |-> OutputAt(so, st.m_inputs[k])]
  ELSE << >>

\* the views array as declared (lines 201-213)
Views(a) ==
  <<SrcTexture, a.src_texture_depth, NullImage, NullImage, NullImage,
    NullImage>>

\* PSSetShaderResources(start, n, &views[from - 1]): slots start..start+n-1
\* take n entries of the array from its (1-based) entry from on
PSSetShaderResources(slots, start, n, views, from) ==
  [s \in DOMAIN slots |->
     IF s \in start..(start + n - 1) THEN views[from + (s - start)]
     ELSE slots[s]]

\* views[2 + stageidx] = ... for every input (lines 281-284); the entries
\* of the array are numbered from 1 here
SetInputViews(views, inputs) ==
  [k \in 1..Len(views) |->
     IF k - 2 \in 1..Len(inputs) THEN inputs[k - 2] ELSE views[k]]

\* ClearInputViews that leaves the views in place
ClearInputViewsKeeps(views, n) == views

\* views[2 + stageidx] = nullptr for every input (lines 291-294)
ClearInputViews(views, n) ==
  [k \in 1..Len(views) |-> IF k - 2 \in 1..n THEN NullImage ELSE views[k]]

\* the texture slots while stage i (0-based) draws and after lines 289-296;
\* slots are the slots before the stage, inputs what StageInputs yields
StageBindings(slots, views, required, n, inputs) ==
  [draw |-> IF required
            THEN PSSetShaderResources(slots, 11, n,
                                      SetInputViews(views, inputs), 3)
            ELSE slots,
   after |-> IF required
             THEN PSSetShaderResources(
                    PSSetShaderResources(slots, 11, n,
                                         SetInputViews(views, inputs), 3),
                    11, n,
                    ClearInputViews(SetInputViews(views, inputs), n), 3)
             ELSE slots,
   written |-> IF required THEN {2 + stageidx : stageidx \in 0..(n - 1)}
               ELSE {}]

\* the slots of every stage of the loop (lines 255-297), slots being the
\* slots after line 216; every stage leaves the views array as it found it
LoopBindings(slots, views, stages, so) ==
  [i \in 1..Len(stages) |->
     StageBindings(slots, views, i - 1 > 0 /\ Len(stages) - 1 > 0,
                   Len(stages[i].m_inputs),
                   StageInputs(i - 1 > 0 /\ Len(stages) - 1 > 0, stages[i],
                               so))]

\* the slots when the function returns (lines 298-300)
ReturnBindings(slots, views) ==
  PSSetShaderResources(slots, 9, 2,
                       [views EXCEPT ![1] = NullImage, ![2] = NullImage], 1)

\* the draw of stage i (0-based) in the stage loop (lines 255-297)
DrawOf(i, stages, so, pshader) ==
  LET finalstage == Len(stages) - 1
      st == stages[i + 1]
      prev_stage_output_required == i > 0 /\ finalstage > 0
  IN [stage |-> i,
      target |-> IF i = finalstage
                 THEN FinalTarget(finalstage,
                                  IF i = 0 THEN DestRTV
                                  ELSE OutputAt(so, i - 1))
                 ELSE OutputAt(so, i),
      program |-> PShaderAt(pshader, i),
      inputs |-> StageInputs(prev_stage_output_required, st, so)]

\* the whole of BlitFromTexture for the argument tuple a; each \E binds
\* the result of one step of the function
BlitFromTexture(a) ==
  \E as \in {ApplyShader} :
  \E upload \in {UploadNeeded(as.m_config)} :
  \E cfg \in {IF upload THEN AfterUpload(as.m_config) ELSE as.m_config} :
  \E options \in {IF upload /\ as.m_options # NullBuffer
                  THEN [as.m_options EXCEPT
                          !.words = UploadLoop(as.m_options.words,
                                               as.m_config.options, 1, 0)]
                  ELSE as.m_options} :
  \E realloc \in {ReallocNeeded(Len(cfg.stages) - 1, a, as.m_stageOutput)} :
  \E out \in {IF realloc
              THEN Reallocate(as.images, as.m_stageOutput, cfg.stages, a)
              ELSE [images |-> as.images,
                    m_stageOutput |-> as.m_stageOutput,
                    events |-> << >>]} :
  \E uv \in {UV(a)} :
  \E geometry \in {GeometryNeeded(m_vertex_buffer_observer, puv, uv)} :
  \E stages \in {cfg.stages} :
  \E so \in {out.m_stageOutput} :
     /\ alive
     /\ sPostProcessingShader' = as.active
     /\ m_config' = cfg
     /\ m_initialized' = as.m_initialized
     /\ m_prev_samples' = as.m_prev_samples
     /\ m_options' = options
     /\ m_pshader' = as.m_pshader
     /\ m_vertex_buffer_observer' = (IF geometry THEN FALSE
                                     ELSE m_vertex_buffer_observer)
     /\ puv' = IF geometry THEN uv ELSE puv
     /\ m_prev_dst_width' = IF realloc THEN GetWidth(a.dst)
                            ELSE m_prev_dst_width
     /\ m_prev_dst_height' = IF realloc THEN GetHeight(a.dst)
                             ELSE m_prev_dst_height
     /\ m_prev_src_width' = IF realloc THEN GetWidth(a.src)
                            ELSE m_prev_src_width
     /\ m_prev_src_height' = IF realloc THEN GetHeight(a.src)
                             ELSE m_prev_src_height
     /\ m_stageOutput' = so
     /\ images' = out.images
     /\ last' = [op |-> "blit",
                 recompiled |-> as.recompiled, fallback |-> as.fallback,
                 loads |-> as.loads, compiles |-> as.compiles,
                 applyReleased |-> as.applyReleased,
                 uploads |-> IF upload THEN 1 ELSE 0,
                 geometry |-> IF geometry THEN 1 ELSE 0,
                 reallocs |-> IF realloc THEN 1 ELSE 0,
                 draws |-> [i \in 1..Len(stages) |->
                              DrawOf(i - 1, stages, so, as.m_pshader)],
                 args |-> <<a>>,
                 events |-> as.events \o out.events,
                 params |-> FrameParams(a), paramUploads |-> 1,
                 bindings |->
                   LoopBindings(PSSetShaderResources(NoSlots, 9, 2, Views(a),
                                                     1),
                                Views(a), stages, so),
                 bound |->
                   ReturnBindings(
                     LoopBindings(PSSetShaderResources(NoSlots, 9, 2,
                                                       Views(a), 1),
                                  Views(a), stages, so)[Len(stages)].after,
                     Views(a))]
     /\ \E fallback \in {IF as.recompiled THEN as.fallback
                          ELSE hist.fallback} :
          hist' = IF realloc
                  THEN [drawn |-> TRUE, uv |-> uv,
                        dst_width |-> GetWidth(a.dst),
                        dst_height |-> GetHeight(a.dst),
                        src_width |-> GetWidth(a.src),
                        src_height |-> GetHeight(a.src),
                        stages |-> Len(stages),
                        fallback |-> fallback]
                  ELSE [hist EXCEPT !.drawn = TRUE, !.uv = uv,
                                    !.fallback = fallback]
     /\ UNCHANGED <<iMultisampleCount, optlist, packing, alive, patch, calc,
                    genvars>>

\* ------------------------------------------------- the user's operations
\* the user selects another preset
SelectShader(p) ==
  /\ alive
  /\ p # sPostProcessingShader
  /\ sPostProcessingShader' = p
  /\ last' = [NoOp EXCEPT !.op = "select"]
  /\ hist' = [hist EXCEPT !.fallback = FALSE]
  /\ UNCHANGED <<iMultisampleCount, m_config, m_initialized, m_prev_samples,
                 m_prev_dst_width, m_prev_dst_height, m_prev_src_width,
                 m_prev_src_height, m_stageOutput, m_pshader, m_options,
                 m_vertex_buffer_observer, puv, images, optlist,
                 packing, alive, patch, calc, genvars>>

\* the user selects another anti-aliasing mode
SetAAMode(s) ==
  /\ alive
  /\ s # iMultisampleCount
  /\ iMultisampleCount' = s
  /\ last' = [NoOp EXCEPT !.op = "aa"]
  /\ hist' = [hist EXCEPT !.fallback = FALSE]
  /\ UNCHANGED <<sPostProcessingShader, m_config, m_initialized,
                 m_prev_samples, m_prev_dst_width, m_prev_dst_height,
                 m_prev_src_width, m_prev_src_height, m_stageOutput,
                 m_pshader, m_options, m_vertex_buffer_observer, puv, images,
                 optlist, packing, alive, patch, calc, genvars>>

\* the user changes the value of option k: the option and the configuration
\* become dirty
SetOption(k, v) ==
  /\ alive
  /\ k \in 1..Len(m_config.options)
  /\ v # m_config.options[k].val
  /\ m_config' = [m_config EXCEPT !.dirty = TRUE,
                                  !.options[k].val = v,
                                  !.options[k].m_dirty = TRUE]
  /\ last' = [NoOp EXCEPT !.op = "option"]
  /\ UNCHANGED <<sPostProcessingShader, iMultisampleCount, m_initialized,
                 m_prev_samples, m_prev_dst_width, m_prev_dst_height,
                 m_prev_src_width, m_prev_src_height, m_stageOutput,
                 m_pshader, m_options, m_vertex_buffer_observer, puv, images,
                 hist, optlist, packing, alive, patch, calc, genvars>>

\* the engine is torn down (lines 95-110): the images and the programs are
\* released, the program list is cleared, the option buffer is released
Destructor ==
  /\ alive
  /\ alive' = FALSE
  /\ images' = ReleaseAll(images, m_stageOutput)
  /\ m_stageOutput' = << >>
  /\ m_pshader' = << >>
  /\ m_options' = NullBuffer
  /\ last' = [NoOp EXCEPT
                !.op = "destroy",
                !.events = ReleaseImages(m_stageOutput)
                           \o ProgramEvents("release", m_pshader, 0)]
  /\ UNCHANGED <<sPostProcessingShader, iMultisampleCount, m_config,
                 m_initialized, m_prev_samples, m_prev_dst_width,
                 m_prev_dst_height, m_prev_src_width, m_prev_src_height,
                 m_vertex_buffer_observer, puv, hist, optlist, packing,
                 patch, calc, genvars>>

Next ==
  \/ \E a \in Args : BlitFromTexture(a)
  \/ \E p \in Presets : SelectShader(p)
  \/ \E s \in AACounts : SetAAMode(s)
  \/ \E k \in 1..MaxOpts, v \in OptionValues : SetOption(k, v)
  \/ Destructor

Spec == Init /\ [][Next]_vars

\* ------------------------------------------- the packing walks on their own
\* the options a configuration can declare: a bool, or a vector of 0 to
\* MaxCount integers or floats
OptionKinds ==
  {Option("o", "OPTION_BOOL", 1)}
  \cup {Option("o", "OPTION_INTEGER", n) : n \in 0..MaxCount}
  \cup {Option("o", "OPTION_FLOAT", n) : n \in 0..MaxCount}

OptionLists == UNION {[1..n -> OptionKinds] : n \in 0..MaxOpts}

InitPack ==
  /\ EngineInit
  /\ GeneratorInit
  /\ optlist \in OptionLists
  /\ packing = NoPacking
  /\ patch = NoPatch
  /\ calc = NoCalc

\* a freshly loaded configuration with the options opts
PackConfig(opts) ==
  [shader |-> "", stages |-> << >>, options |-> opts, dirty |-> TRUE]

\* the layout walk of LoadShaderOptions and the upload of BlitFromTexture,
\* both over optlist: maps tells whether line 121 maps m_options
PackOptions ==
  /\ ~packing.done
  /\ packing' =
       [done |-> TRUE,
        layout |-> LayoutOffsets(optlist, 1, 0),
        upload |-> UploadOffsets(optlist, 1, 0),
        total |-> LayoutTotal(optlist, 1, 0),
        m_options |-> LoadShaderOptions(<< >>, PackConfig(optlist),
                                        1).m_options,
        maps |-> UploadNeeded(PackConfig(optlist))]
  /\ UNCHANGED <<sPostProcessingShader, iMultisampleCount, m_config,
                 m_initialized, m_prev_samples, m_prev_dst_width,
                 m_prev_dst_height, m_prev_src_width, m_prev_src_height,
                 m_stageOutput, m_pshader, m_options,
                 m_vertex_buffer_observer, puv, images, last, hist, optlist,
                 alive, patch, calc, genvars>>

NextPack == PackOptions

SpecPack == InitPack /\ [][NextPack]_vars

\* ------------------------------------------------- InitStages on its own
\* the tokens of a stage source: the declaration keyword, two names that
\* serve as entry points and as body text, and the brace
Tokens == {"void ", "a", "b", "{"}

Codes == UNION {[1..n -> Tokens] : n \in 0..MaxText}

\* the stage lists of a configuration: one stage, two stages in either
\* order, two stages with the same entry point
StageLists ==
  {<<Stage("a", << >>, FALSE, <<1, 1>>)>>,
   <<Stage("a", << >>, FALSE, <<1, 1>>), Stage("b", <<0>>, FALSE, <<1, 1>>)>>,
   <<Stage("b", << >>, FALSE, <<1, 1>>), Stage("a", <<0>>, FALSE, <<1, 1>>)>>,
   <<Stage("a", << >>, FALSE, <<1, 1>>), Stage("a", <<0>>, FALSE, <<1, 1>>)>>}

InitStagesInit ==
  /\ EngineInit
  /\ GeneratorInit
  /\ optlist = << >>
  /\ packing = NoPacking
  /\ patch \in [code : Codes, stages : StageLists, done : {FALSE},
                result : {<< >>}]
  /\ calc = NoCalc

\* InitStages(code) with m_config.GetStages() = patch.stages (lines 315-339)
RunInitStages ==
  /\ ~patch.done
  /\ m_pshader' = Resize(m_pshader, Len(patch.stages), NullPShader)
  /\ patch' = [patch EXCEPT !.done = TRUE,
                            !.result = InitStages(patch.code, patch.stages)]
  /\ UNCHANGED <<sPostProcessingShader, iMultisampleCount, m_config,
                 m_initialized, m_prev_samples, m_prev_dst_width,
                 m_prev_dst_height, m_prev_src_width, m_prev_src_height,
                 m_stageOutput, m_options, m_vertex_buffer_observer, puv,
                 images, last, hist, optlist, packing, alive, calc,
                 genvars>>

NextStages == RunInitStages

SpecStages == InitStagesInit /\ [][NextStages]_vars

\* --------------------------------------------- the shader header on its own
\* the multisample header (lines 461-528) as the pieces of its format
\* string: two conversions, at line 470 and at line 523
s_hlsl_header_MSAA ==
  <<"Texture2DMSArray<float4, ", "%d", "> Tex10 : register(t10);",
    "const int samples = ", "%d", ";">>

\* the plain header (lines 393-459), which has no conversion
s_hlsl_header == <<"Texture2DArray Tex10 : register(t10);">>

RECURSIVE StringFromFormat(_, _, _)
\* StringFromFormat(format, args...): every conversion is replaced by the
\* next supplied argument; a conversion without an argument reads the
\* indeterminate value va
StringFromFormat(format, args, va) ==
  IF format = << >> THEN << >>
  ELSE IF Head(format) = "%d"
       THEN <<ToString(IF args # << >> THEN Head(args) ELSE va)>>
            \o StringFromFormat(Tail(format),
                                IF args # << >> THEN Tail(args) ELSE args, va)
       ELSE <<Head(format)>> \o StringFromFormat(Tail(format), args, va)

\* the header LoadShaderOptions selects for sample count s (lines 704-713)
Header(s, va) ==
  IF s = 1 THEN s_hlsl_header
  ELSE StringFromFormat(s_hlsl_header_MSAA, <<s>>, va)

HeaderInit ==
  /\ EngineInit
  /\ GeneratorInit
  /\ optlist = << >>
  /\ packing = NoPacking
  /\ patch = NoPatch
  /\ calc \in [fn : {"header"}, s : 1..MaxSamples, done : {FALSE},
               header : {<< >>}]

\* lines 704-713 with m_prev_samples = calc.s
FormatHeader ==
  /\ calc.fn = "header" /\ ~calc.done
  /\ \E va \in 0..MaxVaArg :
       calc' = [calc EXCEPT !.done = TRUE, !.header = Header(calc.s, va)]
  /\ UNCHANGED <<sPostProcessingShader, iMultisampleCount, m_config,
                 m_initialized, m_prev_samples, m_prev_dst_width,
                 m_prev_dst_height, m_prev_src_width, m_prev_src_height,
                 m_stageOutput, m_pshader, m_options,
                 m_vertex_buffer_observer, puv, images, last, hist, optlist,
                 packing, alive, patch, genvars>>

NextHeader == FormatHeader

SpecHeader == HeaderInit /\ [][NextHeader]_vars

\* ------------------------------------------- texture-encoder text generator
\* sizeof(text) and the canary byte 0x7C (TextureConversionShaderGL.cpp)
TextSize == 16384
Canary == 124

\* the C string a caller reads through the returned pointer: the bytes
\* before the first zero byte
CString(t) ==
  IF t.nul = {} THEN t.bytes
  ELSE SubSeq(t.bytes, 1, CHOOSE n \in t.nul : \A k \in t.nul : n <= k)

\* sprintf(text + p, "%s", s): s lands at offset p and a zero byte after it;
\* a write that reaches offset TextSize - 1 replaces the canary
Sprintf(t, p, s) ==
  [bytes |-> SubSeq(t.bytes, 1, p) \o s
             \o (IF p + Len(s) < Len(t.bytes)
                 THEN " " \o SubSeq(t.bytes, p + Len(s) + 2, Len(t.bytes))
                 ELSE ""),
   nul |-> {n \in t.nul : n < p \/ n > p + Len(s)}
           \cup (IF p + Len(s) < Len(t.bytes) THEN {p + Len(s)} ELSE {}),
   canary |-> IF p + Len(s) < TextSize - 1 THEN t.canary ELSE 0]

\* the console's texture formats (BPMemory.h / TextureDecoder.h)
Formats ==
  {"GX_TF_I4", "GX_TF_I8", "GX_TF_IA4", "GX_TF_IA8", "GX_TF_RGB565",
   "GX_TF_RGB5A3", "GX_TF_RGBA8", "GX_TF_CMPR",
   "GX_CTF_R4", "GX_CTF_RA4", "GX_CTF_RA8", "GX_CTF_YUVA8", "GX_CTF_A8",
   "GX_CTF_R8", "GX_CTF_G8", "GX_CTF_B8", "GX_CTF_RG8", "GX_CTF_GB8",
   "GX_TF_Z8", "GX_TF_Z16", "GX_TF_Z24X8",
   "GX_CTF_Z4", "GX_CTF_Z8M", "GX_CTF_Z8L", "GX_CTF_Z16L"}

TexDecoder_GetBlockWidthInTexels(format) ==
  IF format \in {"GX_TF_IA8", "GX_TF_RGB565", "GX_TF_RGB5A3", "GX_TF_RGBA8",
                 "GX_CTF_RA8", "GX_CTF_RG8", "GX_CTF_GB8", "GX_TF_Z16",
                 "GX_TF_Z24X8", "GX_CTF_Z16L"}
  THEN 4 ELSE 8

TexDecoder_GetBlockHeightInTexels(format) ==
  IF format \in {"GX_TF_I4", "GX_CTF_R4", "GX_CTF_Z4"} THEN 8 ELSE 4

GetEncodedSampleCount(format) ==
  IF format \in {"GX_TF_I4", "GX_CTF_R4", "GX_CTF_Z4"} THEN 8
  ELSE IF format \in {"GX_TF_IA8", "GX_TF_RGB565", "GX_TF_RGB5A3",
                      "GX_CTF_RA8", "GX_CTF_RG8", "GX_CTF_GB8",
                      "GX_TF_Z16", "GX_CTF_Z16L"} THEN 2
  ELSE IF format \in {"GX_TF_RGBA8", "GX_TF_Z24X8"} THEN 1
  ELSE 4

IntLog2(n) == CHOOSE k \in 0..5 : 2^k <= n /\ n < 2^(k + 1)

EFB_WIDTH == 640
EFB_HEIGHT == 528

\* one p += sprintf(p, ...) with the formatted string s
sprintf(s) == [op |-> "WRITE", s |-> s]

\* a statement of an encoder is the sequence of the writes it performs; an
\* encoder is the sequence of its statements
WRITE(s) == << <<sprintf(s)>> >>

\* WriteSwizzler(p, format) (lines 28-72)
WriteSwizzler(format) ==
  << <<sprintf("uniform int4 position;\n"),
       sprintf("#define samp0 samp9\n"),
       sprintf("SAMPLER_BINDING(9) uniform sampler2D samp0;\n"),
       sprintf("  out vec4 ocol0;\n"),
       sprintf("void main()\n"),
       sprintf("{\n" \o "  int2 sampleUv;\n"
               \o "  int2 uv1 = int2(gl_FragCoord.xy);\n"),
       sprintf("  int y_block_position = uv1.y & "
               \o ToString(-TexDecoder_GetBlockHeightInTexels(format))
               \o ";\n"),
       sprintf("  int y_offset_in_block = uv1.y & "
               \o ToString(TexDecoder_GetBlockHeightInTexels(format) - 1)
               \o ";\n"),
       sprintf("  int x_virtual_position = (uv1.x << "
               \o ToString(IntLog2(GetEncodedSampleCount(format)))
               \o ") + y_offset_in_block * position.z;\n"),
       sprintf("  int x_block_position = (x_virtual_position >> "
               \o ToString(IntLog2(TexDecoder_GetBlockHeightInTexels(format)))
               \o ") & "
               \o ToString(-TexDecoder_GetBlockWidthInTexels(format))
               \o ";\n")>>
     \o (IF GetEncodedSampleCount(format) = 1
         THEN <<sprintf("  bool first = 0 == (x_virtual_position & "
                        \o ToString(8 * GetEncodedSampleCount(format))
                        \o ");\n"),
                sprintf("  x_virtual_position = x_virtual_position << 1;\n")>>
         ELSE << >>)
     \o <<sprintf("  int x_offset_in_block = x_virtual_position & "
                  \o ToString(TexDecoder_GetBlockWidthInTexels(format) - 1)
                  \o ";\n"),
          sprintf("  int y_offset = (x_virtual_position >> "
                  \o ToString(IntLog2(TexDecoder_GetBlockWidthInTexels(format)))
                  \o ") & "
                  \o ToString(TexDecoder_GetBlockHeightInTexels(format) - 1)
                  \o ";\n"),
          sprintf("  sampleUv.x = x_offset_in_block + x_block_position;\n"),
          sprintf("  sampleUv.y = y_block_position + y_offset;\n"),
          sprintf("  float2 uv0 = float2(sampleUv);\n"),
          sprintf("  uv0 += float2(0.5, 0.5);\n"),
          sprintf("  uv0 *= float(position.w);\n"),
          sprintf("  uv0 += float2(position.xy);\n"),
          sprintf("  uv0 /= float2(" \o ToString(EFB_WIDTH) \o ", "
                  \o ToString(EFB_HEIGHT) \o ");\n"),
          sprintf("  uv0.y = 1.0-uv0.y;\n"),
          sprintf("  float sample_offset = float(position.w) / float("
                  \o ToString(EFB_WIDTH) \o ");\n")>> >>

\* WriteSampleColor (lines 74-79)
WriteSampleColor(colorComp, dest, xoffset) ==
  WRITE("  " \o dest \o " = texture(samp0, uv0 + float2("
        \o ToString(xoffset) \o ", 0) * sample_offset)." \o colorComp
        \o ";\n")

\* the line WriteColorToIntensity emits when the flag is not set (line 85)
IntensityConstLine ==
  "  float4 IntensityConst = float4(0.257f,0.504f,0.098f,0.0625f);\n"

\* WriteColorToIntensity (lines 81-90): s is the line it always emits; the
\* test of IntensityConstantAdded is made when the statement runs
WriteColorToIntensity(src, dest) ==
  << <<[op |-> "WriteColorToIntensity",
        s |-> "  " \o dest \o " = dot(IntensityConst.rgb, " \o src
              \o ".rgb);\n"]>> >>

\* WriteToBitDepth (lines 92-95)
WriteToBitDepth(depth, src, dest) ==
  WRITE("  " \o dest \o " = floor(" \o src \o " * 255.0 / exp2(8.0 - "
        \o ToString(depth) \o ".0));\n")

\* WriteEncoderEnd without line 100: the flag is left as it is
WriteEncoderEndKeepsFlag == WRITE("}\n")

\* WriteEncoderEnd (lines 97-101)
WriteEncoderEnd == << <<[op |-> "WriteEncoderEnd", s |-> "}\n"]>> >>

\* WriteI8Encoder (lines 103-123)
WriteI8Encoder ==
  WriteSwizzler("GX_TF_I8")
  \o WRITE("  float3 texSample;\n")
  \o WriteSampleColor("rgb", "texSample", 0)
  \o WriteColorToIntensity("texSample", "ocol0.b")
  \o WriteSampleColor("rgb", "texSample", 1)
  \o WriteColorToIntensity("texSample", "ocol0.g")
  \o WriteSampleColor("rgb", "texSample", 2)
  \o WriteColorToIntensity("texSample", "ocol0.r")
  \o WriteSampleColor("rgb", "texSample", 3)
  \o WriteColorToIntensity("texSample", "ocol0.a")
  \o WRITE("  ocol0.rgba += IntensityConst.aaaa;\n")
  \o WriteEncoderEnd

\* WriteI4Encoder (lines 125-164)
WriteI4Encoder ==
  WriteSwizzler("GX_TF_I4")
  \o WRITE("  float3 texSample;\n")
  \o WRITE("  float4 color0;\n")
  \o WRITE("  float4 color1;\n")
  \o WriteSampleColor("rgb", "texSample", 0)
  \o WriteColorToIntensity("texSample", "color0.b")
  \o WriteSampleColor("rgb", "texSample", 1)
  \o WriteColorToIntensity("texSample", "color1.b")
  \o WriteSampleColor("rgb", "texSample", 2)
  \o WriteColorToIntensity("texSample", "color0.g")
  \o WriteSampleColor("rgb", "texSample", 3)
  \o WriteColorToIntensity("texSample", "color1.g")
  \o WriteSampleColor("rgb", "texSample", 4)
  \o WriteColorToIntensity("texSample", "color0.r")
  \o WriteSampleColor("rgb", "texSample", 5)
  \o WriteColorToIntensity("texSample", "color1.r")
  \o WriteSampleColor("rgb", "texSample", 6)
  \o WriteColorToIntensity("texSample", "color0.a")
  \o WriteSampleColor("rgb", "texSample", 7)
  \o WriteColorToIntensity("texSample", "color1.a")
  \o WRITE("  color0.rgba += IntensityConst.aaaa;\n")
  \o WRITE("  color1.rgba += IntensityConst.aaaa;\n")
  \o WriteToBitDepth(4, "color0", "color0")
  \o WriteToBitDepth(4, "color1", "color1")
  \o WRITE("  ocol0 = (color0 * 16.0 + color1) / 255.0;\n")
  \o WriteEncoderEnd

\* WriteIA8Encoder (lines 166-182)
WriteIA8Encoder ==
  WriteSwizzler("GX_TF_IA8")
  \o WRITE("  float4 texSample;\n")
  \o WriteSampleColor("rgba", "texSample", 0)
  \o WRITE("  ocol0.b = texSample.a;\n")
  \o WriteColorToIntensity("texSample", "ocol0.g")
  \o WriteSampleColor("rgba", "texSample", 1)
  \o WRITE("  ocol0.r = texSample.a;\n")
  \o WriteColorToIntensity("texSample", "ocol0.a")
  \o WRITE("  ocol0.ga += IntensityConst.aa;\n")
  \o WriteEncoderEnd

\* WriteIA4Encoder (lines 184-214)
WriteIA4Encoder ==
  WriteSwizzler("GX_TF_IA4")
  \o WRITE("  float4 texSample;\n")
  \o WRITE("  float4 color0;\n")
  \o WRITE("  float4 color1;\n")
  \o WriteSampleColor("rgba", "texSample", 0)
  \o WRITE("  color0.b = texSample.a;\n")
  \o WriteColorToIntensity("texSample", "color1.b")
  \o WriteSampleColor("rgba", "texSample", 1)
  \o WRITE("  color0.g = texSample.a;\n")
  \o WriteColorToIntensity("texSample", "color1.g")
  \o WriteSampleColor("rgba", "texSample", 2)
  \o WRITE("  color0.r = texSample.a;\n")
  \o WriteColorToIntensity("texSample", "color1.r")
  \o WriteSampleColor("rgba", "texSample", 3)
  \o WRITE("  color0.a = texSample.a;\n")
  \o WriteColorToIntensity("texSample", "color1.a")
  \o WRITE("  color1.rgba += IntensityConst.aaaa;\n")
  \o WriteToBitDepth(4, "color0", "color0")
  \o WriteToBitDepth(4, "color1", "color1")
  \o WRITE("  ocol0 = (color0 * 16.0 + color1) / 255.0;\n")
  \o WriteEncoderEnd

\* WriteRGB565Encoder (lines 216-237)
WriteRGB565Encoder ==
  WriteSwizzler("GX_TF_RGB565")
  \o WriteSampleColor("rgb", "float3 texSample0", 0)
  \o WriteSampleColor("rgb", "float3 texSample1", 1)
  \o WRITE("  float2 texRs = float2(texSample0.r, texSample1.r);\n")
  \o WRITE("  float2 texGs = float2(texSample0.g, texSample1.g);\n")
  \o WRITE("  float2 texBs = float2(texSample0.b, texSample1.b);\n")
  \o WriteToBitDepth(6, "texGs", "float2 gInt")
  \o WRITE("  float2 gUpper = floor(gInt / 8.0);\n")
  \o WRITE("  float2 gLower = gInt - gUpper * 8.0;\n")
  \o WriteToBitDepth(5, "texRs", "ocol0.br")
  \o WRITE("  ocol0.br = ocol0.br * 8.0 + gUpper;\n")
  \o WriteToBitDepth(5, "texBs", "ocol0.ga")
  \o WRITE("  ocol0.ga = ocol0.ga + gLower * 32.0;\n")
  \o WRITE("  ocol0 = ocol0 / 255.0;\n")
  \o WriteEncoderEnd

\* WriteRGB5A3Encoder (lines 239-303)
WriteRGB5A3Encoder ==
  WriteSwizzler("GX_TF_RGB5A3")
  \o WRITE("  float4 texSample;\n")
  \o WRITE("  float color0;\n")
  \o WRITE("  float gUpper;\n")
  \o WRITE("  float gLower;\n")
  \o WriteSampleColor("rgba", "texSample", 0)
  \o WRITE("if(texSample.a > 0.878f) {\n")
  \o WriteToBitDepth(5, "texSample.g", "color0")
  \o WRITE("  gUpper = floor(color0 / 8.0);\n")
  \o WRITE("  gLower = color0 - gUpper * 8.0;\n")
  \o WriteToBitDepth(5, "texSample.r", "ocol0.b")
  \o WRITE("  ocol0.b = ocol0.b * 4.0 + gUpper + 128.0;\n")
  \o WriteToBitDepth(5, "texSample.b", "ocol0.g")
  \o WRITE("  ocol0.g = ocol0.g + gLower * 32.0;\n")
  \o WRITE("} else {\n")
  \o WriteToBitDepth(4, "texSample.r", "ocol0.b")
  \o WriteToBitDepth(4, "texSample.b", "ocol0.g")
  \o WriteToBitDepth(3, "texSample.a", "color0")
  \o WRITE("ocol0.b = ocol0.b + color0 * 16.0;\n")
  \o WriteToBitDepth(4, "texSample.g", "color0")
  \o WRITE("ocol0.g = ocol0.g + color0 * 16.0;\n")
  \o WRITE("}\n")
  \o WriteSampleColor("rgba", "texSample", 1)
  \o WRITE("if(texSample.a > 0.878f) {\n")
  \o WriteToBitDepth(5, "texSample.g", "color0")
  \o WRITE("  gUpper = floor(color0 / 8.0);\n")
  \o WRITE("  gLower = color0 - gUpper * 8.0;\n")
  \o WriteToBitDepth(5, "texSample.r", "ocol0.r")
  \o WRITE("  ocol0.r = ocol0.r * 4.0 + gUpper + 128.0;\n")
  \o WriteToBitDepth(5, "texSample.b", "ocol0.a")
  \o WRITE("  ocol0.a = ocol0.a + gLower * 32.0;\n")
  \o WRITE("} else {\n")
  \o WriteToBitDepth(4, "texSample.r", "ocol0.r")
  \o WriteToBitDepth(4, "texSample.b", "ocol0.a")
  \o WriteToBitDepth(3, "texSample.a", "color0")
  \o WRITE("ocol0.r = ocol0.r + color0 * 16.0;\n")
  \o WriteToBitDepth(4, "texSample.g", "color0")
  \o WRITE("ocol0.a = ocol0.a + color0 * 16.0;\n")
  \o WRITE("}\n")
  \o WRITE("  ocol0 = ocol0 / 255.0;\n")
  \o WriteEncoderEnd

\* WriteRGBA8Encoder (lines 305-328)
WriteRGBA8Encoder ==
  WriteSwizzler("GX_TF_RGBA8")
  \o WRITE("  float4 texSample;\n")
  \o WRITE("  float4 color0;\n")
  \o WRITE("  float4 color1;\n")
  \o WriteSampleColor("rgba", "texSample", 0)
  \o WRITE("  color0.b = texSample.a;\n")
  \o WRITE("  color0.g = texSample.r;\n")
  \o WRITE("  color1.b = texSample.g;\n")
  \o WRITE("  color1.g = texSample.b;\n")
  \o WriteSampleColor("rgba", "texSample", 1)
  \o WRITE("  color0.r = texSample.a;\n")
  \o WRITE("  color0.a = texSample.r;\n")
  \o WRITE("  color1.r = texSample.g;\n")
  \o WRITE("  color1.a = texSample.b;\n")
  \o WRITE("  ocol0 = first ? color0 : color1;\n")
  \o WriteEncoderEnd

\* WriteC4Encoder (lines 330-350)
WriteC4Encoder(comp) ==
  WriteSwizzler("GX_CTF_R4")
  \o WRITE("  float4 color0;\n")
  \o WRITE("  float4 color1;\n")
  \o WriteSampleColor(comp, "color0.b", 0)
  \o WriteSampleColor(comp, "color1.b", 1)
  \o WriteSampleColor(comp, "color0.g", 2)
  \o WriteSampleColor(comp, "color1.g", 3)
  \o WriteSampleColor(comp, "color0.r", 4)
  \o WriteSampleColor(comp, "color1.r", 5)
  \o WriteSampleColor(comp, "color0.a", 6)
  \o WriteSampleColor(comp, "color1.a", 7)
  \o WriteToBitDepth(4, "color0", "color0")
  \o WriteToBitDepth(4, "color1", "color1")
  \o WRITE("  ocol0 = (color0 * 16.0 + color1) / 255.0;\n")
  \o WriteEncoderEnd

\* WriteC8Encoder (lines 352-362)
WriteC8Encoder(comp) ==
  WriteSwizzler("GX_CTF_R8")
  \o WriteSampleColor(comp, "ocol0.b", 0)
  \o WriteSampleColor(comp, "ocol0.g", 1)
  \o WriteSampleColor(comp, "ocol0.r", 2)
  \o WriteSampleColor(comp, "ocol0.a", 3)
  \o WriteEncoderEnd

\* WriteCC4Encoder (lines 364-392)
WriteCC4Encoder(comp) ==
  WriteSwizzler("GX_CTF_RA4")
  \o WRITE("  float2 texSample;\n")
  \o WRITE("  float4 color0;\n")
  \o WRITE("  float4 color1;\n")
  \o WriteSampleColor(comp, "texSample", 0)
  \o WRITE("  color0.b = texSample.x;\n")
  \o WRITE("  color1.b = texSample.y;\n")
  \o WriteSampleColor(comp, "texSample", 1)
  \o WRITE("  color0.g = texSample.x;\n")
  \o WRITE("  color1.g = texSample.y;\n")
  \o WriteSampleColor(comp, "texSample", 2)
  \o WRITE("  color0.r = texSample.x;\n")
  \o WRITE("  color1.r = texSample.y;\n")
  \o WriteSampleColor(comp, "texSample", 3)
  \o WRITE("  color0.a = texSample.x;\n")
  \o WRITE("  color1.a = texSample.y;\n")
  \o WriteToBitDepth(4, "color0", "color0")
  \o WriteToBitDepth(4, "color1", "color1")
  \o WRITE("  ocol0 = (color0 * 16.0 + color1) / 255.0;\n")
  \o WriteEncoderEnd

\* WriteCC8Encoder (lines 394-402)
WriteCC8Encoder(comp) ==
  WriteSwizzler("GX_CTF_RA8")
  \o WriteSampleColor(comp, "ocol0.bg", 0)
  \o WriteSampleColor(comp, "ocol0.ra", 1)
  \o WriteEncoderEnd

\* WriteZ8Encoder (lines 404-423)
WriteZ8Encoder(multiplier) ==
  WriteSwizzler("GX_CTF_Z8M")
  \o WRITE(" float depth;\n")
  \o WriteSampleColor("b", "depth", 0)
  \o WRITE("ocol0.b = frac(depth * " \o multiplier \o ");\n")
  \o WriteSampleColor("b", "depth", 1)
  \o WRITE("ocol0.g = frac(depth * " \o multiplier \o ");\n")
  \o WriteSampleColor("b", "depth", 2)
  \o WRITE("ocol0.r = frac(depth * " \o multiplier \o ");\n")
  \o WriteSampleColor("b", "depth", 3)
  \o WRITE("ocol0.a = frac(depth * " \o multiplier \o ");\n")
  \o WriteEncoderEnd

\* WriteZ16Encoder (lines 425-455)
WriteZ16Encoder ==
  WriteSwizzler("GX_TF_Z16")
  \o WRITE("  float depth;\n")
  \o WRITE("  float3 expanded;\n")
  \o WriteSampleColor("b", "depth", 0)
  \o WRITE("  depth *= 16777215.0;\n")
  \o WRITE("  expanded.r = floor(depth / (256.0 * 256.0));\n")
  \o WRITE("  depth -= expanded.r * 256.0 * 256.0;\n")
  \o WRITE("  expanded.g = floor(depth / 256.0);\n")
  \o WRITE("  ocol0.b = expanded.g / 255.0;\n")
  \o WRITE("  ocol0.g = expanded.r / 255.0;\n")
  \o WriteSampleColor("b", "depth", 1)
  \o WRITE("  depth *= 16777215.0;\n")
  \o WRITE("  expanded.r = floor(depth / (256.0 * 256.0));\n")
  \o WRITE("  depth -= expanded.r * 256.0 * 256.0;\n")
  \o WRITE("  expanded.g = floor(depth / 256.0);\n")
  \o WRITE("  ocol0.r = expanded.g / 255.0;\n")
  \o WRITE("  ocol0.a = expanded.r / 255.0;\n")
  \o WriteEncoderEnd

\* WriteZ16LEncoder (lines 457-491)
WriteZ16LEncoder ==
  WriteSwizzler("GX_CTF_Z16L")
  \o WRITE("  float depth;\n")
  \o WRITE("  float3 expanded;\n")
  \o WriteSampleColor("b", "depth", 0)
  \o WRITE("  depth *= 16777215.0;\n")
  \o WRITE("  expanded.r = floor(depth / (256.0 * 256.0));\n")
  \o WRITE("  depth -= expanded.r * 256.0 * 256.0;\n")
  \o WRITE("  expanded.g = floor(depth / 256.0);\n")
  \o WRITE("  depth -= expanded.g * 256.0;\n")
  \o WRITE("  expanded.b = depth;\n")
  \o WRITE("  ocol0.b = expanded.b / 255.0;\n")
  \o WRITE("  ocol0.g = expanded.g / 255.0;\n")
  \o WriteSampleColor("b", "depth", 1)
  \o WRITE("  depth *= 16777215.0;\n")
  \o WRITE("  expanded.r = floor(depth / (256.0 * 256.0));\n")
  \o WRITE("  depth -= expanded.r * 256.0 * 256.0;\n")
  \o WRITE("  expanded.g = floor(depth / 256.0);\n")
  \o WRITE("  depth -= expanded.g * 256.0;\n")
  \o WRITE("  expanded.b = depth;\n")
  \o WRITE("  ocol0.r = expanded.b / 255.0;\n")
  \o WRITE("  ocol0.a = expanded.g / 255.0;\n")
  \o WriteEncoderEnd

\* the body of the loop of WriteZ24Encoder (lines 505-514) for index i
Z24Expand(i) ==
  WRITE("  depth" \o ToString(i) \o " *= 16777215.0;\n")
  \o WRITE("  expanded" \o ToString(i) \o ".r = floor(depth" \o ToString(i) \o " / (256.0 * 256.0));\n")
  \o WRITE("  depth" \o ToString(i) \o " -= expanded" \o ToString(i) \o ".r * 256.0 * 256.0;\n")
  \o WRITE("  expanded" \o ToString(i) \o ".g = floor(depth" \o ToString(i) \o " / 256.0);\n")
  \o WRITE("  depth" \o ToString(i) \o " -= expanded" \o ToString(i) \o ".g * 256.0;\n")
  \o WRITE("  expanded" \o ToString(i) \o ".b = depth" \o ToString(i) \o ";\n")

\* WriteZ24Encoder (lines 493-531)
WriteZ24Encoder ==
  WriteSwizzler("GX_TF_Z24X8")
  \o WRITE("  float depth0;\n")
  \o WRITE("  float depth1;\n")
  \o WRITE("  float3 expanded0;\n")
  \o WRITE("  float3 expanded1;\n")
  \o WriteSampleColor("b", "depth0", 0)
  \o WriteSampleColor("b", "depth1", 1)
  \o Z24Expand(0)
  \o Z24Expand(1)
  \o WRITE("  if (!first) {\n")
  \o WRITE("     ocol0.b = expanded0.g / 255.0;\n")
  \o WRITE("     ocol0.g = expanded0.b / 255.0;\n")
  \o WRITE("     ocol0.r = expanded1.g / 255.0;\n")
  \o WRITE("     ocol0.a = expanded1.b / 255.0;\n")
  \o WRITE("  } else {\n")
  \o WRITE("     ocol0.b = 1.0;\n")
  \o WRITE("     ocol0.g = expanded0.r / 255.0;\n")
  \o WRITE("     ocol0.r = 1.0;\n")
  \o WRITE("     ocol0.a = expanded1.r / 255.0;\n")
  \o WRITE("  }\n")
  \o WriteEncoderEnd

\* the dispatch of GenerateEncodingShader without the case GX_CTF_Z16L
EncoderNoZ16L(format) ==
  CASE format = "GX_TF_I4" -> WriteI4Encoder
    [] format = "GX_TF_I8" -> WriteI8Encoder
    [] format = "GX_TF_IA4" -> WriteIA4Encoder
    [] format = "GX_TF_IA8" -> WriteIA8Encoder
    [] format = "GX_TF_RGB565" -> WriteRGB565Encoder
    [] format = "GX_TF_RGB5A3" -> WriteRGB5A3Encoder
    [] format = "GX_TF_RGBA8" -> WriteRGBA8Encoder
    [] format = "GX_CTF_R4" -> WriteC4Encoder("r")
    [] format = "GX_CTF_RA4" -> WriteCC4Encoder("ar")
    [] format = "GX_CTF_RA8" -> WriteCC8Encoder("ar")
    [] format = "GX_CTF_A8" -> WriteC8Encoder("a")
    [] format = "GX_CTF_R8" -> WriteC8Encoder("r")
    [] format = "GX_CTF_G8" -> WriteC8Encoder("g")
    [] format = "GX_CTF_B8" -> WriteC8Encoder("b")
    [] format = "GX_CTF_RG8" -> WriteCC8Encoder("rg")
    [] format = "GX_CTF_GB8" -> WriteCC8Encoder("gb")
    [] format = "GX_TF_Z8" -> WriteC8Encoder("b")
    [] format = "GX_TF_Z16" -> WriteZ16Encoder
    [] format = "GX_TF_Z24X8" -> WriteZ24Encoder
    [] format = "GX_CTF_Z4" -> WriteC4Encoder("b")
    [] format = "GX_CTF_Z8M" -> WriteZ8Encoder("256.0")
    [] format = "GX_CTF_Z8L" -> WriteZ8Encoder("65536.0")
    [] OTHER -> << >>

\* the switch of GenerateEncodingShader (lines 543-617): the statements of
\* the encoder the format selects; the default case writes nothing
Encoder(format) ==
  CASE format = "GX_TF_I4" -> WriteI4Encoder
    [] format = "GX_TF_I8" -> WriteI8Encoder
    [] format = "GX_TF_IA4" -> WriteIA4Encoder
    [] format = "GX_TF_IA8" -> WriteIA8Encoder
    [] format = "GX_TF_RGB565" -> WriteRGB565Encoder
    [] format = "GX_TF_RGB5A3" -> WriteRGB5A3Encoder
    [] format = "GX_TF_RGBA8" -> WriteRGBA8Encoder
    [] format = "GX_CTF_R4" -> WriteC4Encoder("r")
    [] format = "GX_CTF_RA4" -> WriteCC4Encoder("ar")
    [] format = "GX_CTF_RA8" -> WriteCC8Encoder("ar")
    [] format = "GX_CTF_A8" -> WriteC8Encoder("a")
    [] format = "GX_CTF_R8" -> WriteC8Encoder("r")
    [] format = "GX_CTF_G8" -> WriteC8Encoder("g")
    [] format = "GX_CTF_B8" -> WriteC8Encoder("b")
    [] format = "GX_CTF_RG8" -> WriteCC8Encoder("rg")
    [] format = "GX_CTF_GB8" -> WriteCC8Encoder("gb")
    [] format = "GX_TF_Z8" -> WriteC8Encoder("b")
    [] format = "GX_TF_Z16" -> WriteZ16Encoder
    [] format = "GX_TF_Z24X8" -> WriteZ24Encoder
    [] format = "GX_CTF_Z4" -> WriteC4Encoder("b")
    [] format = "GX_CTF_Z8M" -> WriteZ8Encoder("256.0")
    [] format = "GX_CTF_Z8L" -> WriteZ8Encoder("65536.0")
    [] format = "GX_CTF_Z16L" -> WriteZ16LEncoder
    [] OTHER -> << >>

\* Encoder, evaluated once for every format
Encoders == [f \in Formats |-> Encoder(f)]

\* the formats the switch has a case for
HandledFormats == {f \in Formats : Encoders[f] # << >>}

\* the registers of one running call: the shared buffer and flag, the
\* call's write pointer p, and counts of what WriteColorToIntensity did
Machine(t, added) ==
  [text |-> t, added |-> added, p |-> 0, uses |-> 0, decls |-> 0,
   declAt |-> 0]

RECURSIVE Flatten(_, _, _)
\* the writes of the statements lo..hi, in order (evaluated by halves)
Flatten(stmts, lo, hi) ==
  IF lo > hi THEN << >>
  ELSE IF lo = hi THEN stmts[lo]
  ELSE Flatten(stmts, lo, (lo + hi) \div 2)
       \o Flatten(stmts, (lo + hi) \div 2 + 1, hi)

\* IntensityConstantAdded before write k of the writes w, added being its
\* value before the first: WriteColorToIntensity sets it (line 86),
\* WriteEncoderEnd clears it (line 100)
FlagAt(w, added, k) ==
  LET touched == {j \in 1..(k - 1) : w[j].op # "WRITE"}
  IN IF touched = {} THEN added
     ELSE w[CHOOSE j \in touched : \A i \in touched : i <= j].op
            = "WriteColorToIntensity"

\* write k of w emits the declaration of the constant (lines 83-87)
Declares(w, added, k) ==
  w[k].op = "WriteColorToIntensity" /\ ~FlagAt(w, added, k)

\* the characters write k of w appends at p
WriteText(w, added, k) ==
  (IF Declares(w, added, k) THEN IntensityConstLine ELSE "") \o w[k].s

RECURSIVE Written(_, _, _, _)
\* the characters the writes lo..hi of w append, one after the other
Written(w, added, lo, hi) ==
  IF lo > hi THEN ""
  ELSE IF lo = hi THEN WriteText(w, added, lo)
  ELSE Written(w, added, lo, (lo + hi) \div 2)
       \o Written(w, added, (lo + hi) \div 2 + 1, hi)

\* the registers after the writes w, which append the characters s: each
\* sprintf starts on the zero byte the one before left, so together they
\* store s at p and a zero byte after it
ExecWritten(m, w, s) ==
  [text |-> IF w = << >> THEN m.text ELSE Sprintf(m.text, m.p, s),
   added |-> FlagAt(w, m.added, Len(w) + 1),
   p |-> m.p + Len(s),
   uses |-> m.uses
            + Cardinality({k \in 1..Len(w) :
                             w[k].op = "WriteColorToIntensity"}),
   decls |-> m.decls
             + Cardinality({k \in 1..Len(w) : Declares(w, m.added, k)}),
   declAt |-> IF \E k \in 1..Len(w) : Declares(w, m.added, k)
              THEN m.p + Len(Written(w, m.added, 1,
                                     (CHOOSE k \in 1..Len(w) :
                                        /\ Declares(w, m.added, k)
                                        /\ \A j \in 1..(k - 1) :
                                              ~Declares(w, m.added, j))
                                     - 1))
              ELSE m.declAt]

\* the registers after the writes w
ExecWrites(m, w) == ExecWritten(m, w, Written(w, m.added, 1, Len(w)))

\* one statement of an encoder
ExecStatement(m, stmt) == ExecWrites(m, stmt)

\* all the statements of an encoder
ExecEncoder(m, stmts) == ExecWrites(m, Flatten(stmts, 1, Len(stmts)))

\* the encoder of every format run on the fresh buffer, for either value of
\* IntensityConstantAdded at the start of the call
Generated ==
  [f \in Formats |-> [added \in BOOLEAN |->
     ExecEncoder(Machine(FreshText, added), Encoders[f])]]

\* the alerts raised by a call for format whose canary check reads canary
Alerts(format, canary) ==
  (IF Encoders[format] = << >> THEN {"Unknown texture copy format"}
   ELSE {})
  \cup (IF canary # Canary THEN {"canary has been eaten"} ELSE {})

\* the engine, the packing walk and the stage patching are not involved
GeneratorOnly ==
  UNCHANGED <<sPostProcessingShader, iMultisampleCount, m_config,
              m_initialized, m_prev_samples, m_prev_dst_width,
              m_prev_dst_height, m_prev_src_width, m_prev_src_height,
              m_stageOutput, m_pshader, m_options, m_vertex_buffer_observer,
              puv, images, last, hist, optlist, packing, alive, patch,
              calc>>

\* a whole call of GenerateEncodingShader(format) by one thread (lines
\* 533-627).  The writes of a call start at offset 0 and follow each other,
\* so on the buffer they amount to one write of the text they produce.
GenerateEncodingShader(format) ==
  /\ Len(gen) < MaxCalls
  /\ \E m \in {Generated[format][IntensityConstantAdded]} :
     \E t \in {IF Encoders[format] = << >>
               THEN [text EXCEPT !.canary = Canary]
               ELSE Sprintf([text EXCEPT !.canary = Canary], 0,
                            CString(m.text))} :
       /\ text' = t
       /\ IntensityConstantAdded' = m.added
       /\ gen' = Append(gen, [format |-> format,
                              added |-> IntensityConstantAdded,
                              alerts |-> Alerts(format, t.canary),
                              returned |-> CString(t),
                              uses |-> m.uses, decls |-> m.decls,
                              declAt |-> m.declAt])
  /\ UNCHANGED thr
  /\ GeneratorOnly

NextGen == \E format \in Formats : GenerateEncodingShader(format)

SpecGen == Init /\ [][NextGen]_vars

\* the formats of the calls that run concurrently
ThreadFormats == {"GX_CTF_R8", "GX_TF_IA8"}

\* thread t enters GenerateEncodingShader(format): lines 539-541 and the
\* dispatch
GenBegin(t, format) ==
  /\ thr[t].pc = "idle"
  /\ text' = [text EXCEPT !.canary = Canary]
  /\ thr' = [thr EXCEPT ![t] = [pc |-> "run", format |-> format, k |-> 1,
                                p |-> 0,
                                alerts |-> Alerts(format, Canary),
                                ret |-> ""]]
  /\ UNCHANGED <<IntensityConstantAdded, gen>>
  /\ GeneratorOnly

\* thread t runs the next statement of its encoder on the shared buffer
GenStatement(t) ==
  /\ thr[t].pc = "run"
  /\ thr[t].k <= Len(Encoders[thr[t].format])
  /\ \E m \in {ExecStatement([Machine(text, IntensityConstantAdded)
                                EXCEPT !.p = thr[t].p],
                             Encoders[thr[t].format][thr[t].k])} :
       /\ text' = m.text
       /\ IntensityConstantAdded' = m.added
       /\ thr' = [thr EXCEPT ![t].p = m.p, ![t].k = thr[t].k + 1]
  /\ UNCHANGED gen
  /\ GeneratorOnly

\* thread t checks the canary and returns the buffer (lines 619-626)
GenReturn(t) ==
  /\ thr[t].pc = "run"
  /\ thr[t].k > Len(Encoders[thr[t].format])
  /\ thr' = [thr EXCEPT ![t].pc = "done",
                        ![t].alerts = thr[t].alerts
                                      \cup Alerts(thr[t].format, text.canary),
                        ![t].ret = CString(text)]
  /\ UNCHANGED <<text, IntensityConstantAdded, gen>>
  /\ GeneratorOnly

NextGenMT ==
  \/ \E t \in Threads, format \in ThreadFormats : GenBegin(t, format)
  \/ \E t \in Threads : GenStatement(t)
  \/ \E t \in Threads : GenReturn(t)

SpecGenMT == Init /\ [][NextGenMT]_vars

\* ------------------------------------------------------------- properties
\* the step is a call of BlitFromTexture
IsBlit == last'.op = "blit"

\* the three conditions of line 344, on the state before the call
NothingChanged ==
  /\ m_initialized
  /\ m_config.shader = sPostProcessingShader
  /\ m_prev_samples = iMultisampleCount

\* preset p declares a stage whose entry point its source does not define
MissingEntryPoint(p) ==
  \E i \in 1..Len(PresetStages(p)) :
     Find(PresetCode(p),
          <<"void ", PresetStages(p)[i].m_stage_entry_point>>, 1) = 0

\* some stage of preset p fails to compile for sample count s
StageFailsToCompile(p, s) ==
  \E i \in 1..Len(Programs[p][s]) : Programs[p][s][i] = NullPShader

\* C1: a recompilation of a preset with a missing entry point or a stage
\* that fails to compile clears the active preset and leaves exactly one
\* non-null program, the default pass, and every stage drawn by the same
\* call is drawn with a non-null program.
C1_FallbackDefaultPass ==
  [][(IsBlit /\ ~NothingChanged
      /\ (MissingEntryPoint(sPostProcessingShader)
          \/ StageFailsToCompile(sPostProcessingShader, iMultisampleCount)))
     => /\ sPostProcessingShader' = ""
        /\ last'.fallback
        /\ Len(m_pshader') = 1
        /\ m_pshader'[1] # NullPShader
        /\ m_pshader'[1].entry = "main"
        /\ m_pshader'[1].code = Assembled[""][iMultisampleCount].lso.text
        /\ Len(last'.draws) = Len(m_config'.stages)
        /\ Len(last'.draws) >= 1
        /\ \A d \in 1..Len(last'.draws) :
              last'.draws[d].program = m_pshader'[d]
              /\ last'.draws[d].program # NullPShader]_vars

\* C1 witness: a call fell back after one stage had compiled (preset failb)
C1_Witness ==
  /\ last.op = "blit" /\ last.fallback /\ last.compiles = 3
  /\ Len(m_pshader) = 1 /\ sPostProcessingShader = ""

C3_RecompileIff ==
  [][IsBlit =>
       /\ last'.recompiled <=> ~NothingChanged
       /\ NothingChanged =>
            /\ last'.loads = 0 /\ last'.compiles = 0
            /\ last'.applyReleased = 0
            /\ m_pshader' = m_pshader
            /\ m_options'.size = m_options.size
            /\ m_config'.shader = m_config.shader
            /\ m_config'.stages = m_config.stages
            /\ sPostProcessingShader' = sPostProcessingShader
            /\ m_initialized' = m_initialized
            /\ m_prev_samples' = m_prev_samples
       /\ last'.recompiled =>
            /\ m_prev_samples' = iMultisampleCount
            /\ last'.loads >= 1 /\ last'.compiles >= 1]_vars

\* C3 witness: a call that recompiled only because the sample count changed
C3_Witness ==
  /\ last.op = "blit" /\ last.recompiled /\ ~last.fallback
  /\ m_prev_samples = 4 /\ hist.drawn /\ hist.stages = 3
  /\ Len(m_stageOutput) = 2

\* C4: after an option upload every component of every option sits in the
\* option buffer at the byte offset the layout walk of LoadShaderOptions
\* assigns to the option.
C4_UploadAtLayoutOffsets ==
  (last.op = "blit" /\ last.uploads = 1 /\ m_options # NullBuffer) =>
    \A k \in 1..Len(m_config.options) :
      \A j \in 1..(needed_size(m_config.options[k]) \div WordSize) :
        m_options.words[LayoutOffsets(m_config.options, 1, 0)[k]
                        \div WordSize + j]
          = [opt |-> k, comp |-> j, val |-> m_config.options[k].val]

\* the running offset of the layout walk before option k of optlist
RunningOffset(k) ==
  IF k = 1 THEN 0
  ELSE packing.layout[k - 1] + needed_size(optlist[k - 1])

\* C5 as stated: a 12-byte option whose running offset is 4 is placed at
\* byte offset 16.
C5_VectorAtFourPushed ==
  packing.done =>
    \A k \in 1..Len(optlist) :
      (needed_size(optlist[k]) = 12 /\ RunningOffset(k) = 4)
         => packing.layout[k] = 16

\* C5 amended: a 12-byte option whose running offset is 4 exactly fills the
\* register and stays at offset 4; a 12-byte option is pushed to the next
\* 16-byte boundary only from a running offset with fewer than 12 bytes
\* left in the register.
C5_VectorAtFourPacked ==
  packing.done =>
    \A k \in 1..Len(optlist) :
      needed_size(optlist[k]) = 12 =>
        /\ RunningOffset(k) % 16 \in {0, 4}
             => packing.layout[k] = RunningOffset(k)
        /\ RunningOffset(k) % 16 \in {8, 12}
             => packing.layout[k] = RunningOffset(k) + 16
                                    - (RunningOffset(k) % 16)

\* C5 witness: the layout of {bool a; floatVector(3) b; int a2}
C5_Witness ==
  /\ packing.done
  /\ Len(optlist) = 3
  /\ optlist[1].m_type = "OPTION_BOOL"
  /\ optlist[2].m_type = "OPTION_FLOAT" /\ optlist[2].count = 3
  /\ optlist[3].m_type = "OPTION_INTEGER" /\ optlist[3].count = 1
  /\ packing.layout = <<0, 4, 16>>

\* C6: a draw of an unchanged shader with a dirty configuration that has
\* options uploads the option buffer once without recompiling and clears
\* the dirty flag of the configuration and of every option; a draw of an
\* unchanged shader with a clean configuration uploads nothing; a change
\* of an option sets the dirty flag and does not affect the conditions of
\* recompilation.
C6_OptionUploadOnce ==
  [][/\ IsBlit =>
          /\ (NothingChanged /\ m_config.dirty /\ HasOptions(m_config)) =>
               /\ ~last'.recompiled
               /\ last'.uploads = 1
               /\ ~m_config'.dirty
               /\ \A k \in 1..Len(m_config'.options) :
                     /\ ~m_config'.options[k].m_dirty
                     /\ m_config'.options[k].val = m_config.options[k].val
          /\ (NothingChanged /\ ~m_config.dirty) =>
               /\ last'.uploads = 0
               /\ m_options' = m_options
               /\ m_config' = m_config
          /\ HasOptions(m_config') => ~m_config'.dirty
     /\ last'.op = "option" =>
          /\ m_config'.dirty
          /\ NothingChanged' <=> NothingChanged]_vars

\* C6 witness: a draw that uploaded the changed options and did not
\* recompile
C6_Witness ==
  /\ last.op = "blit" /\ last.uploads = 1 /\ ~last.recompiled
  /\ Len(m_config.options) = 2 /\ ~m_config.dirty
  /\ m_config.options[2].val = 1

\* C7: after every draw the engine holds exactly N-1 intermediate images
\* for its N stages, all of them live and distinct, and no other image is
\* live.
C7_ImagesAreStagesMinusOne ==
  last.op = "blit" =>
    /\ Len(m_config.stages) >= 1
    /\ Len(m_stageOutput) = Len(m_config.stages) - 1
    /\ \A i \in 1..Len(m_stageOutput) :
          /\ m_stageOutput[i] \in DOMAIN images
          /\ images[m_stageOutput[i]].live
          /\ \A j \in 1..Len(m_stageOutput) :
                m_stageOutput[i] = m_stageOutput[j] => i = j
    /\ Cardinality({h \in DOMAIN images : images[h].live})
         = Len(m_config.stages) - 1

\* C7 witness: a draw with three stages after a recompilation that had
\* released the two images of the draws before
C7_Witness ==
  /\ last.op = "blit" /\ Len(m_config.stages) = 3
  /\ Len(m_stageOutput) = 2 /\ last.applyReleased = 2

\* the sizes of the call's rectangles differ from the last allocation's
SizesDiffer(a) ==
  \/ hist.dst_width # GetWidth(a.dst)
  \/ hist.dst_height # GetHeight(a.dst)
  \/ hist.src_width # GetWidth(a.src)
  \/ hist.src_height # GetHeight(a.src)

\* C8 as stated: the images are reallocated only if the destination size,
\* the source size or the stage count differs from the last allocation's.
C8_ReallocOnlyOnChange ==
  [][(IsBlit /\ last'.reallocs = 1) =>
        \/ SizesDiffer(last'.args[1])
        \/ hist.stages # Len(m_config'.stages)]_vars

\* C8 amended: with several stages the images are reallocated exactly when
\* a size differs from the last allocation's or ApplyShader recompiled in
\* the same call (which releases every image, whatever the stage count);
\* with one stage never; the allocation records the sizes it was made for.
C8_ReallocOnChangeOrRecompile ==
  [][IsBlit =>
       /\ last'.reallocs = 1 <=>
            /\ Len(m_config'.stages) > 1
            /\ SizesDiffer(last'.args[1]) \/ last'.recompiled
       /\ last'.reallocs = 1 =>
            /\ hist'.dst_width = GetWidth(last'.args[1].dst)
            /\ hist'.dst_height = GetHeight(last'.args[1].dst)
            /\ hist'.src_width = GetWidth(last'.args[1].src)
            /\ hist'.src_height = GetHeight(last'.args[1].src)
            /\ hist'.stages = Len(m_config'.stages)
       /\ last'.reallocs = 0 =>
            /\ m_stageOutput' = m_stageOutput \/ last'.recompiled
            /\ hist'.stages = hist.stages]_vars

\* C8 witness: a draw that reallocated for a new destination size without
\* recompiling
C8_Witness ==
  /\ last.op = "blit" /\ last.reallocs = 1 /\ ~last.recompiled
  /\ hist.dst_width = 256 /\ Len(m_stageOutput) = 2

\* C9: the quad is appended to the vertex buffer exactly when the call is
\* the first draw or its normalized UV rectangle differs from that of the
\* draw before.
C9_GeometryIffUVChanged ==
  [][IsBlit =>
       (last'.geometry = 1 <=>
          (~hist.drawn \/ hist.uv # UV(last'.args[1])))]_vars

\* C9 witness: a later draw with the UV rectangle of the draw before, from
\* another source rectangle, appended nothing
C9_Witness ==
  /\ last.op = "blit" /\ last.geometry = 0 /\ hist.drawn
  /\ last.args[1].src_width = 128
  /\ m_prev_src_width = 64

\* C10: a draw runs every stage once, in index order; stage i before the
\* last renders into its own live image m_stageOutput[i], the last stage
\* into the render target bound at the call.
C10_StageOrderAndTargets ==
  last.op = "blit" =>
    /\ Len(last.draws) = Len(m_config.stages)
    /\ \A i \in 1..Len(last.draws) :
          /\ last.draws[i].stage = i - 1
          /\ i < Len(last.draws) =>
               /\ last.draws[i].target = m_stageOutput[i]
               /\ last.draws[i].target \in DOMAIN images
               /\ images[last.draws[i].target].live
               /\ \A j \in 1..Len(last.draws) :
                     last.draws[j].target = last.draws[i].target => i = j
          /\ i = Len(last.draws) => last.draws[i].target = DestRTV

\* C10 witness: a draw of three stages
C10_Witness ==
  /\ last.op = "blit" /\ Len(last.draws) = 3
  /\ last.draws[3].target = DestRTV /\ last.draws[2].target # DestRTV

\* C11 as stated: a call for a format the switch has no case for raises the
\* alert and returns text that holds no shader, whatever was generated
\* before.
C11_UnknownFormatNoShader ==
  \A i \in 1..Len(gen) :
    gen[i].format \notin HandledFormats =>
      /\ "Unknown texture copy format" \in gen[i].alerts
      /\ gen[i].returned = ""

\* C12: IntensityConstantAdded is false before and after every call, an
\* unknown format included, and a call whose encoder uses the intensity
\* constant emits its declaration once, before the first use, whatever was
\* generated before.
C12_IntensityFlagNeverLeaks ==
  /\ ~IntensityConstantAdded
  /\ \A i \in 1..Len(gen) :
       /\ ~gen[i].added
       /\ gen[i].uses > 0 =>
            /\ gen[i].decls = 1
            /\ SubSeq(gen[i].returned, gen[i].declAt + 1,
                      gen[i].declAt + Len(IntensityConstLine))
                 = IntensityConstLine
       /\ gen[i].uses = 0 => gen[i].decls = 0

\* C12 witness: an intensity format generated after another intensity
\* format
C12_Witness ==
  /\ Len(gen) = 2
  /\ gen[1].format = "GX_TF_I8" /\ gen[1].uses = 4
  /\ gen[2].format = "GX_TF_IA4" /\ gen[2].uses = 4 /\ gen[2].decls = 1

\* every call for a handled format returned non-empty text that ends before
\* the last byte of the buffer, with the canary intact and no overflow alert
HandledCallsFit ==
  \A i \in 1..Len(gen) :
    gen[i].format \in HandledFormats =>
      /\ gen[i].returned # ""
      /\ Len(gen[i].returned) < TextSize - 1
      /\ gen[i].alerts = {}
      /\ text.canary = Canary

\* C13 as stated: every handled format fits, and there are 24 of them.
C13_TwentyFourFormatsFit ==
  /\ HandledCallsFit
  /\ Cardinality(HandledFormats) = 24

\* C13 amended: every handled format fits, and the switch handles 23
\* formats.
C13_TwentyThreeFormatsFit ==
  /\ HandledCallsFit
  /\ Cardinality(HandledFormats) = 23

\* C13 witness: the longest text (RGB5A3) generated after another format
C13_Witness ==
  /\ Len(gen) = 2
  /\ gen[2].format = "GX_TF_RGB5A3"
  /\ Len(gen[2].returned) > 2048
  /\ \A f \in HandledFormats :
       Len(CString(Generated[f][FALSE].text)) <= Len(gen[2].returned)

\* where "void <entry>" of stage k first occurs in the source, 0 = nowhere
DeclStart(k) ==
  Find(patch.code, <<"void ", patch.stages[k].m_stage_entry_point>>, 1)

\* the first brace at or after that declaration, 0 = none
DeclBrace(k) ==
  IF DeclStart(k) = 0 THEN 0 ELSE Find(patch.code, <<"{">>, DeclStart(k))

\* some stage has no declaration with a brace in the source
MissingDeclaration ==
  \E k \in 1..Len(patch.stages) : DeclStart(k) = 0 \/ DeclBrace(k) = 0

\* position i of the source lies after the entry-point name of some stage,
\* up to and including its brace
InDeclaration(i) ==
  \E k \in 1..Len(patch.stages) : DeclStart(k) + 2 <= i /\ i <= DeclBrace(k)

\* the source from position i on with every stage's text between the
\* entry-point name and its brace, brace included, replaced by the block
RECURSIVE SplicedFrom(_)
SplicedFrom(i) ==
  IF i > Len(patch.code) THEN << >>
  ELSE (IF ~InDeclaration(i) THEN <<patch.code[i]>>
        ELSE IF \E k \in 1..Len(patch.stages) : DeclBrace(k) = i
             THEN s_hlsl_entry ELSE << >>)
       \o SplicedFrom(i + 1)

\* the stages have distinct entry points and no stage is declared between
\* another stage's declaration and its brace
SeparateDeclarations ==
  \A j, k \in 1..Len(patch.stages) :
    j # k =>
      /\ patch.stages[j].m_stage_entry_point
           # patch.stages[k].m_stage_entry_point
      /\ ~(DeclStart(j) < DeclStart(k) /\ DeclStart(k) < DeclBrace(j))

C15_FallbackIsStable ==
  [][(hist.fallback /\ IsBlit)
     => /\ ~last'.recompiled /\ ~last'.fallback
        /\ last'.loads = 0 /\ last'.compiles = 0
        /\ sPostProcessingShader' = "" /\ m_config'.shader = ""
        /\ m_pshader' = m_pshader
        /\ Len(last'.draws) = 1
        /\ last'.draws[1].program = FallbackProgram[iMultisampleCount]
        /\ last'.draws[1].program # NullPShader
        /\ last'.draws[1].target = DestRTV]_vars

\* C15 witness: the second call after a fallback did not recompile
C15_Witness ==
  /\ hist.fallback /\ hist.drawn
  /\ last.op = "blit" /\ ~last.recompiled /\ Len(last.draws) = 1
  /\ sPostProcessingShader = "" /\ m_initialized

\* position k of trace E is preceded by the release of resource id of kind
ReleasedBefore(E, k, kind, id) ==
  \E j \in 1..(k - 1) :
    E[j].ev = "release" /\ E[j].kind = kind /\ E[j].id = id

\* the program created at position j of E is released between j and k
ReleasedBetween(E, j, k) ==
  \E r \in (j + 1)..(k - 1) :
    /\ E[r].ev = "release" /\ E[r].kind = "program"
    /\ E[r].id = E[j].id /\ E[r].gen = E[j].gen

\* in E no resource is created while a resource of the generation it
\* replaces is held: an image or a program is created only after every
\* image held when the call began was released, a program only after every
\* program held when the call began and every program of another
\* compilation of the same call was released
ReleasesPrecedeCreations(E) ==
  \A k \in 1..Len(E) :
    E[k].ev = "create" =>
      /\ \A i \in 1..Len(m_stageOutput) :
            ReleasedBefore(E, k, "image", m_stageOutput[i])
      /\ E[k].kind = "program" =>
           /\ \A i \in 1..Len(m_pshader) :
                 m_pshader[i] # NullPShader =>
                   ReleasedBefore(E, k, "program", i)
           /\ \A j \in 1..(k - 1) :
                 (E[j].ev = "create" /\ E[j].kind = "program"
                  /\ E[j].gen # E[k].gen) => ReleasedBetween(E, j, k)

\* E releases every image and every program held when the call began
ReleasesEverything(E) ==
  /\ \A i \in 1..Len(m_stageOutput) :
        ReleasedBefore(E, Len(E) + 1, "image", m_stageOutput[i])
  /\ \A i \in 1..Len(m_pshader) :
        m_pshader[i] # NullPShader =>
          ReleasedBefore(E, Len(E) + 1, "program", i)

\* C16: a call that recompiles releases every image and every program held,
\* a call that reallocates every image held, the teardown both; every
\* release precedes the creation of any replacement, the programs a failed
\* compile loop created are released before the fallback program is
\* created, and the images alive on the device afterwards are the images
\* the engine holds.
C16_ReleaseBeforeCreate ==
  [][(last'.op \in {"blit", "destroy"})
     => /\ ReleasesPrecedeCreations(last'.events)
        /\ last'.recompiled => ReleasesEverything(last'.events)
        /\ last'.reallocs = 1 =>
             \A i \in 1..Len(m_stageOutput) :
               ReleasedBefore(last'.events, Len(last'.events) + 1, "image",
                              m_stageOutput[i])
        /\ last'.op = "destroy" =>
             /\ ReleasesEverything(last'.events)
             /\ \A k \in 1..Len(last'.events) :
                  last'.events[k].ev = "release"
             /\ m_pshader' = << >> /\ m_options' = NullBuffer
        /\ \A h \in DOMAIN images' :
             images'[h].live <=>
               \E i \in 1..Len(m_stageOutput') : m_stageOutput'[i] = h]_vars

\* C16 witness: a call released two images and three programs, compiled one
\* stage of a broken preset, released it and created the fallback program
C16_Witness ==
  /\ last.op = "blit" /\ last.fallback /\ last.applyReleased = 2
  /\ Len(last.events) = 8
  /\ \A k \in 1..5 : last.events[k].ev = "release"
  /\ last.events[6] = ProgramEvent("create", 1, 1)
  /\ last.events[7] = ProgramEvent("release", 1, 1)
  /\ last.events[8] = ProgramEvent("create", 1, 2)

\* C18: every call fills the frame parameters from its own arguments and
\* uploads them once, whatever the state before the call: native_gamma is
\* 1 / gamma, resolution is (src_width, src_height, 1 / src_width,
\* 1 / src_height); for a 64x64 source and gamma 2.2 the resolution is
\* (64, 64, 1/64, 1/64) and native_gamma lies in [0.4545, 0.4546).
C18_FrameParamsEveryCall ==
  [][IsBlit
     => \E a \in {last'.args[1]} : \E ps \in {last'.params} :
        /\ last'.paramUploads = 1
        /\ ps.native_gamma[1] * a.gamma[1]
             = ps.native_gamma[2] * a.gamma[2]
        /\ ps.Layer = a.layer
        /\ ps.resolution[1] = a.src_width
        /\ ps.resolution[2] = a.src_height
        /\ ps.resolution[3][1] * a.src_width = ps.resolution[3][2]
        /\ ps.resolution[4][1] * a.src_height = ps.resolution[4][2]
        /\ (a.src_width = 64 /\ a.src_height = 64 /\ a.gamma = <<22, 10>>)
             => /\ ps.resolution = <<64, 64, <<1, 64>>, <<1, 64>>>>
                /\ 4545 * ps.native_gamma[2] <= 10000 * ps.native_gamma[1]
                /\ 10000 * ps.native_gamma[1] < 4546 * ps.native_gamma[2]
       ]_vars

\* C18 witness: a call with a 64x64 source and gamma 2.2 that repeated the
\* arguments of the call before it and changed nothing else
C18_Witness ==
  /\ last.op = "blit" /\ last.paramUploads = 1
  /\ ~last.recompiled /\ last.uploads = 0 /\ last.geometry = 0
  /\ last.reallocs = 0
  /\ last.args[1].src = Rect(0, 0, 64, 64)
  /\ last.args[1].dst = Rect(0, 0, 128, 128)
  /\ last.args[1].gamma = <<22, 10>>
  /\ last.params.resolution = <<64, 64, <<1, 64>>, <<1, 64>>>>
  /\ Len(last.draws) = 1

\* the declared inputs of stage d (1-based) name earlier stages only
InputsAreEarlier(d) ==
  \A k \in 1..Len(m_config.stages[d].m_inputs) :
    m_config.stages[d].m_inputs[k] < d - 1

\* C19: after a call that drew a multi-stage configuration, every stage
\* whose declared inputs name earlier stages only was drawn with one bound
\* texture for every declared input, and the texture bound for input j is
\* a live intermediate image that was the target of the draw of stage j,
\* which happened earlier in the same call.
C19_InputsAreEarlierOutputs ==
  (last.op = "blit" /\ Len(last.draws) > 1) =>
    \A d \in 1..Len(last.draws) :
      InputsAreEarlier(d) =>
        /\ Len(last.draws[d].inputs) = Len(m_config.stages[d].m_inputs)
        /\ \A k \in 1..Len(last.draws[d].inputs) :
             \E e \in 1..(d - 1) :
               /\ last.draws[e].stage = m_config.stages[d].m_inputs[k]
               /\ last.draws[e].target = last.draws[d].inputs[k]
               /\ last.draws[d].inputs[k] # DestRTV
               /\ last.draws[d].inputs[k] # NullImage
               /\ images[last.draws[d].inputs[k]].live

\* C19 witness: the third of three stages was drawn with the images of the
\* first and the second stage bound
C19_Witness ==
  /\ last.op = "blit" /\ Len(last.draws) = 3
  /\ m_config.stages[3].m_inputs = <<0, 1>>
  /\ last.draws[3].inputs
       = <<last.draws[1].target, last.draws[2].target>>
  /\ last.draws[2].inputs = <<last.draws[1].target>>
  /\ last.draws[1].target # last.draws[2].target

\* C20: when every option is at most 16 bytes long, no option of the layout
\* walk has bytes on both sides of a 16-byte boundary; the option buffer
\* exists exactly when there are options and the final offset is not zero,
\* and its size is the final offset rounded up to a multiple of 16.
C20_NoOptionStraddles ==
  packing.done =>
    /\ (\A k \in 1..Len(optlist) : needed_size(optlist[k]) <= 16) =>
         \A k \in 1..Len(optlist) :
           needed_size(optlist[k]) > 0 =>
             packing.layout[k] \div 16
               = (packing.layout[k] + needed_size(optlist[k]) - 1) \div 16
    /\ packing.total
         = (IF optlist = << >> THEN 0
            ELSE packing.layout[Len(optlist)]
                 + needed_size(optlist[Len(optlist)]))
    /\ (packing.m_options # NullBuffer)
         <=> (optlist # << >> /\ packing.total > 0)
    /\ packing.m_options # NullBuffer =>
         /\ packing.m_options.size % 16 = 0
         /\ packing.total <= packing.m_options.size
         /\ packing.m_options.size < packing.total + 16

\* C20 witness: padding was inserted before a 12-byte option and the
\* 28-byte total was rounded up to 32
C20_Witness ==
  /\ packing.done
  /\ Len(optlist) = 2
  /\ needed_size(optlist[1]) = 8 /\ needed_size(optlist[2]) = 12
  /\ packing.layout = <<0, 16>>
  /\ packing.total = 28
  /\ packing.m_options # NullBuffer /\ packing.m_options.size = 32

\* C17 as stated: when two threads have run GenerateEncodingShader
\* concurrently, each of them received the complete text of its own format,
\* the text the call returns when it runs alone, and raised no alert.
C17_ThreadsGetOwnText ==
  (\A t \in Threads : thr[t].pc = "done") =>
    \A t \in Threads :
      /\ thr[t].ret = CString(Generated[thr[t].format][FALSE].text)
      /\ thr[t].alerts = {}

\* ------------------------------------------ the swizzle arithmetic on its own
\* the largest int: ~n of a non-negative int n has the low 31 bits
\* MaxInt - n and the sign bit set
MaxInt == 2147483647

RECURSIVE BitAnd(_, _)
\* a & b of non-negative ints
BitAnd(a, b) ==
  IF a = 0 \/ b = 0 THEN 0
  ELSE (a % 2) * (b % 2) + 2 * BitAnd(a \div 2, b \div 2)

\* a & ~n for non-negative a and n: the sign bit of ~n meets a zero
AndNot(a, n) == BitAnd(a, MaxInt - n)

\* x_block_position without the block-width mask
XBlockPositionNoMask(v, blkW, blkH) == v \div (2 ^ IntLog2(blkH))

\* x_block_position (line 56)
XBlockPosition(v, blkW, blkH) ==
  AndNot(v \div (2 ^ IntLog2(blkH)), blkW - 1)

\* x_virtual_position as first assigned (line 55)
XVirtualPosition(samples, blkH, position_z, uv1) ==
  uv1[1] * (2 ^ IntLog2(samples)) + BitAnd(uv1[2], blkH - 1) * position_z

\* the half selector (line 60); declared only when samples = 1
First(samples, v) == samples = 1 /\ BitAnd(v, 8 * samples) = 0

\* x_virtual_position after line 61
XVirtualShifted(samples, v) == IF samples = 1 THEN v * 2 ELSE v

\* sampleUv (lines 53-54, 56, 63-67) from the two values of
\* x_virtual_position: v0 before line 61, v after it
SampleUvAt(blkW, blkH, v0, v, y) ==
  <<BitAnd(v, blkW - 1) + XBlockPosition(v0, blkW, blkH),
    AndNot(y, blkH - 1) + BitAnd(v \div (2 ^ IntLog2(blkW)), blkH - 1)>>

\* the statements WriteSwizzler emits (lines 53-67), evaluated for the
\* fragment uv1 and the destination width position_z
SampleUvOf(blkW, blkH, samples, position_z, uv1) ==
  SampleUvAt(blkW, blkH, XVirtualPosition(samples, blkH, position_z, uv1),
             XVirtualShifted(samples,
                XVirtualPosition(samples, blkH, position_z, uv1)),
             uv1[2])

SampleUv(format, position_z, uv1) ==
  SampleUvOf(TexDecoder_GetBlockWidthInTexels(format),
             TexDecoder_GetBlockHeightInTexels(format),
             GetEncodedSampleCount(format), position_z, uv1)

Swizzle(format, position_z, uv1) ==
  calc' = [calc EXCEPT
    !.done = TRUE,
    !.first = First(GetEncodedSampleCount(format),
                    XVirtualPosition(GetEncodedSampleCount(format),
                       TexDecoder_GetBlockHeightInTexels(format),
                       position_z, uv1)),
    !.sampleUv = SampleUv(format, position_z, uv1)]

Widths == {w \in 4..MaxWidth : w % 4 = 0}

SwizzleInit ==
  /\ EngineInit
  /\ GeneratorInit
  /\ optlist = << >>
  /\ packing = NoPacking
  /\ patch = NoPatch
  /\ calc \in [fn : {"swizzle"}, format : Formats, position_z : Widths,
               uv1 : (0..(MaxWidth \div 2 - 1)) \X (0..(MaxRows - 1)),
               done : {FALSE}, first : {FALSE}, sampleUv : {<<0, 0>>}]

\* one fragment of the generated program
RunSwizzle ==
  /\ calc.fn = "swizzle" /\ ~calc.done
  /\ Swizzle(calc.format, calc.position_z, calc.uv1)
  /\ UNCHANGED <<sPostProcessingShader, iMultisampleCount, m_config,
                 m_initialized, m_prev_samples, m_prev_dst_width,
                 m_prev_dst_height, m_prev_src_width, m_prev_src_height,
                 m_stageOutput, m_pshader, m_options,
                 m_vertex_buffer_observer, puv, images, last, hist, optlist,
                 packing, alive, patch, genvars>>

NextSwizzle == RunSwizzle

SpecSwizzle == SwizzleInit /\ [][NextSwizzle]_vars

\* -------------------------------------------- the RGB5A3 encoder on its own
\* A sample channel is the rational n/255 of an 8-bit value n; the emitted
\* statements are evaluated exactly.
\* WriteToBitDepth with rounding to nearest instead of floor
ToBitDepthRounded(depth, n) == (n * 255 * 2 + 255 * 2 ^ (8 - depth))
                                 \div (2 * 255 * 2 ^ (8 - depth))

\* floor(src * 255.0 / exp2(8.0 - depth)) for src = n/255 (line 94)
ToBitDepth(depth, n) == (n * 255) \div (255 * 2 ^ (8 - depth))

\* texSample.a > 0.878f for texSample.a = n/255 (lines 251, 278)
AboveAlphaThreshold(n) == n * 1000 > 878 * 255

\* gUpper = floor(color0 / 8.0) and gLower = color0 - gUpper * 8.0
\* (lines 254-255, 281-282)
GUpper(color0) == color0 \div 8
GLower(color0) == color0 - GUpper(color0) * 8

\* the two output channels written for one sampled texel, before the
\* final division by 255 (lines 251-273 and 278-300)
EncodeRGB5A3Texel(t) ==
  IF AboveAlphaThreshold(t.a)
  THEN <<ToBitDepth(5, t.r) * 4 + GUpper(ToBitDepth(5, t.g)) + 128,
         ToBitDepth(5, t.b) + GLower(ToBitDepth(5, t.g)) * 32>>
  ELSE <<ToBitDepth(4, t.r) + ToBitDepth(3, t.a) * 16,
         ToBitDepth(4, t.b) + ToBitDepth(4, t.g) * 16>>

\* ocol0 * 255 after line 302: texel 0 fills b and g, texel 1 r and a
EncodeRGB5A3(t0, t1) ==
  [b |-> EncodeRGB5A3Texel(t0)[1], g |-> EncodeRGB5A3Texel(t0)[2],
   r |-> EncodeRGB5A3Texel(t1)[1], a |-> EncodeRGB5A3Texel(t1)[2]]

\* sampled channel values around the 3-, 4- and 5-bit steps
ColourValues == {0, 7, 8, 15, 16, 63, 64, 255}
AlphaValues == {0, 31, 32, 223, 224, 255}
Texel == [r : ColourValues, g : ColourValues, b : ColourValues,
          a : AlphaValues]
NeighbourTexels ==
  {[r |-> 255, g |-> 255, b |-> 255, a |-> 255],
   [r |-> 0, g |-> 0, b |-> 0, a |-> 0],
   [r |-> 8, g |-> 64, b |-> 16, a |-> 224],
   [r |-> 16, g |-> 8, b |-> 64, a |-> 223]}
NoColour == [b |-> 0, g |-> 0, r |-> 0, a |-> 0]

RGB5A3Init ==
  /\ EngineInit
  /\ GeneratorInit
  /\ optlist = << >>
  /\ packing = NoPacking
  /\ patch = NoPatch
  /\ calc \in [fn : {"rgb5a3"}, t0 : Texel, t1 : NeighbourTexels,
               done : {FALSE}, ocol0 : {NoColour}]
              \cup [fn : {"rgb5a3"}, t0 : NeighbourTexels, t1 : Texel,
                    done : {FALSE}, ocol0 : {NoColour}]

\* one fragment of the RGB5A3 program
RunRGB5A3 ==
  /\ calc.fn = "rgb5a3" /\ ~calc.done
  /\ calc' = [calc EXCEPT !.done = TRUE,
                          !.ocol0 = EncodeRGB5A3(calc.t0, calc.t1)]
  /\ UNCHANGED <<sPostProcessingShader, iMultisampleCount, m_config,
                 m_initialized, m_prev_samples, m_prev_dst_width,
                 m_prev_dst_height, m_prev_src_width, m_prev_src_height,
                 m_stageOutput, m_pshader, m_options,
                 m_vertex_buffer_observer, puv, images, last, hist, optlist,
                 packing, alive, patch, genvars>>

NextRGB5A3 == RunRGB5A3

SpecRGB5A3 == RGB5A3Init /\ [][NextRGB5A3]_vars

\* ------------------------------------ the half selector and the RGBA8 encoder
\* pat occurs in the string str
HasSubstring(str, pat) ==
  \E k \in 1..(Len(str) - Len(pat) + 1) :
    SubSeq(str, k, k + Len(pat) - 1) = pat

\* the generated program of format declares 'first' (line 60)
DeclaresFirst(format) ==
  \E k \in 1..Len(Flatten(Encoders[format], 1, Len(Encoders[format]))) :
    HasSubstring(Flatten(Encoders[format], 1, Len(Encoders[format]))[k].s,
                 "bool first =")

\* the generated program of format reads 'first' (lines 325, 516)
ReadsFirst(format) ==
  \E k \in 1..Len(Flatten(Encoders[format], 1, Len(Encoders[format]))) :
    \/ HasSubstring(Flatten(Encoders[format], 1, Len(Encoders[format]))[k].s,
                    "first ?")
    \/ HasSubstring(Flatten(Encoders[format], 1, Len(Encoders[format]))[k].s,
                    "!first")

DeclaresFirstOf == [f \in HandledFormats |-> DeclaresFirst(f)]
ReadsFirstOf == [f \in HandledFormats |-> ReadsFirst(f)]

\* ocol0 that always takes color0
EncodeRGBA8FirstOnly(first, t0, t1) ==
  [b |-> <<"a", t0>>, g |-> <<"r", t0>>, r |-> <<"a", t1>>, a |-> <<"r", t1>>]

\* ocol0 of the RGBA8 program (lines 313-325): every output channel names
\* the channel and the texel it is copied from; t0, t1 are the texels
\* sampled at offsets 0 and 1
EncodeRGBA8(first, t0, t1) ==
  IF first
  THEN [b |-> <<"a", t0>>, g |-> <<"r", t0>>,
        r |-> <<"a", t1>>, a |-> <<"r", t1>>]
  ELSE [b |-> <<"g", t0>>, g |-> <<"b", t0>>,
        r |-> <<"g", t1>>, a |-> <<"b", t1>>]

\* ocol0 of the RGBA8 fragment uv1 for the destination width position_z
RGBA8Fragment(position_z, uv1) ==
  EncodeRGBA8(First(1, XVirtualPosition(1, 4, position_z, uv1)),
              SampleUv("GX_TF_RGBA8", position_z, uv1),
              <<SampleUv("GX_TF_RGBA8", position_z, uv1)[1] + 1,
                SampleUv("GX_TF_RGBA8", position_z, uv1)[2]>>)

HalfInit ==
  /\ EngineInit
  /\ GeneratorInit
  /\ optlist = << >>
  /\ packing = NoPacking
  /\ patch = NoPatch
  /\ calc \in [fn : {"half"}, format : HandledFormats, position_z : Widths,
               uv1 : (0..(MaxWidth - 1)) \X (0..(MaxRows - 1)),
               done : {FALSE}, declares : {FALSE}, reads : {FALSE},
               first : {FALSE}, sampleUv : {<<0, 0>>}, ocol0 : {<< >>}]

\* the program of a format is generated and one fragment of it runs its
\* preamble; the RGBA8 fragment also runs its body
RunHalf ==
  /\ calc.fn = "half" /\ ~calc.done
  /\ calc' = [calc EXCEPT
       !.done = TRUE,
       !.declares = DeclaresFirstOf[calc.format],
       !.reads = ReadsFirstOf[calc.format],
       !.first = First(GetEncodedSampleCount(calc.format),
                   XVirtualPosition(GetEncodedSampleCount(calc.format),
                      TexDecoder_GetBlockHeightInTexels(calc.format),
                      calc.position_z, calc.uv1)),
       !.sampleUv = SampleUv(calc.format, calc.position_z, calc.uv1),
       !.ocol0 = IF calc.format = "GX_TF_RGBA8"
                 THEN RGBA8Fragment(calc.position_z, calc.uv1)
                 ELSE << >>]
  /\ UNCHANGED <<sPostProcessingShader, iMultisampleCount, m_config,
                 m_initialized, m_prev_samples, m_prev_dst_width,
                 m_prev_dst_height, m_prev_src_width, m_prev_src_height,
                 m_stageOutput, m_pshader, m_options,
                 m_vertex_buffer_observer, puv, images, last, hist, optlist,
                 packing, alive, patch, genvars>>

NextHalf == RunHalf

SpecHalf == HalfInit /\ [][NextHalf]_vars

\* C21 as stated: for a sample count other than 1 the header is the
\* multisample header with every conversion replaced by the sample count
\* and everything else unchanged; for 1 it is the plain header.
C21_EveryPlaceholderIsSampleCount ==
  calc.done =>
    IF calc.s = 1 THEN calc.header = s_hlsl_header
    ELSE /\ Len(calc.header) = Len(s_hlsl_header_MSAA)
         /\ \A k \in 1..Len(calc.header) :
              calc.header[k] = IF s_hlsl_header_MSAA[k] = "%d"
                               THEN ToString(calc.s)
                               ELSE s_hlsl_header_MSAA[k]

\* the texels one fragment of the block row reads: samples texels to the
\* right of sampleUv
Group(format, position_z, uv1) ==
  {<<SampleUv(format, position_z, uv1)[1] + k,
     SampleUv(format, position_z, uv1)[2]>> :
     k \in 0..(GetEncodedSampleCount(format) - 1)}

\* the fragments that encode the block row of output row y
RowFragments(format, position_z, y) ==
  (0..(position_z \div GetEncodedSampleCount(format) - 1))
    \X {r \in 0..(MaxRows + 7) :
          r \div TexDecoder_GetBlockHeightInTexels(format)
            = y \div TexDecoder_GetBlockHeightInTexels(format)}

\* the texels of the block row of output row y
RowTexels(format, position_z, y) ==
  (0..(position_z - 1))
    \X {r \in 0..(MaxRows + 7) :
          r \div TexDecoder_GetBlockHeightInTexels(format)
            = y \div TexDecoder_GetBlockHeightInTexels(format)}

SwizzleCase ==
  /\ calc.fn = "swizzle" /\ calc.done
  /\ GetEncodedSampleCount(calc.format) > 1
  /\ TexDecoder_GetBlockWidthInTexels(calc.format)
       % GetEncodedSampleCount(calc.format) = 0
  /\ calc.position_z % TexDecoder_GetBlockWidthInTexels(calc.format) = 0
  /\ GetEncodedSampleCount(calc.format) * calc.uv1[1] < calc.position_z

SwizzleFormula(blkW, blkH, v, y) ==
  <<blkW * (v \div (blkW * blkH)) + (v % blkW),
    (y - (y % blkH)) + ((v \div blkW) % blkH)>>

\* C22: for a format with more than one sample per fragment and a
\* destination width that is a multiple of the block width, the fragment
\* (x, y) with v = S*x + (y mod blkH)*width reads from
\* (blkW*floor(v/(blkW*blkH)) + v mod blkW,
\*  (y - y mod blkH) + floor(v/blkW) mod blkH), and the groups of the
\* fragments of a block row are pairwise disjoint and cover the block row.
C22_SwizzleIsBlockBijection ==
  SwizzleCase =>
    /\ calc.sampleUv =
         SwizzleFormula(TexDecoder_GetBlockWidthInTexels(calc.format),
            TexDecoder_GetBlockHeightInTexels(calc.format),
            GetEncodedSampleCount(calc.format) * calc.uv1[1]
              + (calc.uv1[2] % TexDecoder_GetBlockHeightInTexels(calc.format))
                * calc.position_z,
            calc.uv1[2])
    /\ \A f \in RowFragments(calc.format, calc.position_z, calc.uv1[2]) :
         f # calc.uv1 =>
           Group(calc.format, calc.position_z, f)
             \cap {<<calc.sampleUv[1] + k, calc.sampleUv[2]>> :
                     k \in 0..(GetEncodedSampleCount(calc.format) - 1)} = {}
    /\ UNION {Group(calc.format, calc.position_z, f) :
           f \in RowFragments(calc.format, calc.position_z, calc.uv1[2])}
         = RowTexels(calc.format, calc.position_z, calc.uv1[2])

\* a fragment in the second block of the second block row, off the first
\* row of its block
C22_Witness ==
  /\ SwizzleCase
  /\ calc.position_z = 2 * TexDecoder_GetBlockWidthInTexels(calc.format)
  /\ calc.uv1[2] > TexDecoder_GetBlockHeightInTexels(calc.format)
  /\ calc.sampleUv[1] >= TexDecoder_GetBlockWidthInTexels(calc.format)
  /\ calc.sampleUv[2] # calc.uv1[2]

\* the big-endian RGB5A3 word of the 8-bit channels of t
RGB5A3Word(t) ==
  IF t.a >= 224
  THEN 32768 + (t.r \div 8) * 1024 + (t.g \div 8) * 32 + (t.b \div 8)
  ELSE (t.a \div 32) * 4096 + (t.r \div 16) * 256 + (t.g \div 16) * 16
         + (t.b \div 16)

\* C23: each of the two sampled texels yields the two bytes of its
\* big-endian RGB5A3 word, 1rrrrrgg gggbbbbb for alpha >= 224 and
\* 0aaarrrr ggggbbbb otherwise; the bytes lie in 0..255 and the top bit of
\* the first byte is set exactly for alpha >= 224.
C23_RGB5A3Bytes ==
  (calc.fn = "rgb5a3" /\ calc.done) =>
    /\ calc.ocol0.b = RGB5A3Word(calc.t0) \div 256
    /\ calc.ocol0.g = RGB5A3Word(calc.t0) % 256
    /\ calc.ocol0.r = RGB5A3Word(calc.t1) \div 256
    /\ calc.ocol0.a = RGB5A3Word(calc.t1) % 256
    /\ \A c \in {calc.ocol0.b, calc.ocol0.g, calc.ocol0.r, calc.ocol0.a} :
         c \in 0..255
    /\ (calc.ocol0.b >= 128) <=> (calc.t0.a >= 224)
    /\ (calc.ocol0.r >= 128) <=> (calc.t1.a >= 224)

\* an opaque texel at the threshold next to a translucent one just below
C23_Witness ==
  /\ calc.fn = "rgb5a3" /\ calc.done
  /\ calc.t0.a = 224 /\ calc.t1.a = 223
  /\ calc.t0.g = 63 /\ calc.t0.r = 255
  /\ calc.ocol0.b = 252 /\ calc.ocol0.r < 128

\* the fragments of the RGBA8 block row of output row y: one per texel
\* column
RGBA8RowFragments(position_z, y) ==
  (0..(position_z - 1)) \X {r \in 0..(MaxRows + 7) : r \div 4 = y \div 4}

\* everything the fragments of the block row of output row y emit
RGBA8RowOutput(position_z, y) ==
  {RGBA8Fragment(position_z, f)[c] :
     f \in RGBA8RowFragments(position_z, y), c \in {"b", "g", "r", "a"}}

RGBA8Case ==
  /\ calc.fn = "half" /\ calc.done /\ calc.format = "GX_TF_RGBA8"
  /\ calc.position_z % 4 = 0
  /\ calc.uv1[1] < calc.position_z

\* C24: 'first' is declared exactly for the formats with one sample per
\* fragment, so every program that reads it declares it; it is true iff
\* bit 3 of the virtual position is 0; the RGBA8 program writes
\* (A0,R0,A1,R1) in the first half and (G0,B0,G1,B1) in the second, and
\* over the fragments of a block row every channel of every texel of the
\* row is written exactly once.
C24_HalvesEmitEveryChannelOnce ==
  (calc.fn = "half" /\ calc.done) =>
    /\ calc.declares <=> (GetEncodedSampleCount(calc.format) = 1)
    /\ calc.reads => calc.declares
    /\ calc.declares =>
         (calc.first <=>
            ((calc.uv1[1] + (calc.uv1[2] % 4) * calc.position_z) \div 8) % 2
              = 0)
    /\ RGBA8Case =>
         /\ calc.ocol0 =
              IF calc.first
              THEN [b |-> <<"a", calc.sampleUv>>, g |-> <<"r", calc.sampleUv>>,
                    r |-> <<"a", <<calc.sampleUv[1] + 1, calc.sampleUv[2]>> >>,
                    a |-> <<"r", <<calc.sampleUv[1] + 1, calc.sampleUv[2]>> >>]
              ELSE [b |-> <<"g", calc.sampleUv>>, g |-> <<"b", calc.sampleUv>>,
                    r |-> <<"g", <<calc.sampleUv[1] + 1, calc.sampleUv[2]>> >>,
                    a |-> <<"b", <<calc.sampleUv[1] + 1, calc.sampleUv[2]>> >>]
         /\ RGBA8RowOutput(calc.position_z, calc.uv1[2])
              = {"r", "g", "b", "a"}
                  \X RowTexels("GX_TF_RGBA8", calc.position_z, calc.uv1[2])
         /\ Cardinality(RGBA8RowOutput(calc.position_z, calc.uv1[2]))
              = 4 * Cardinality(RGBA8RowFragments(calc.position_z,
                                                  calc.uv1[2]))

\* an RGBA8 fragment of the second half
C24_Witness ==
  /\ RGBA8Case
  /\ calc.declares /\ calc.reads /\ ~calc.first
  /\ calc.position_z = 8
  /\ calc.ocol0.b[1] = "g"

\* C25 as stated: the program compiled on fallback holds the raw default
\* source, without the block InitStages splices in.
C25_FallbackCompilesRawSource ==
  (last.op = "blit" /\ last.fallback) =>
    /\ Find(m_pshader[1].code, PresetCode(""), 1) # 0
    /\ Find(m_pshader[1].code, s_hlsl_entry, 1) = 0

\* C25 as the code has it: the program compiled on fallback is compiled
\* from LoadShaderOptions(InitStages(default source)); the entry point of
\* the default stage carries the spliced block and the raw declaration is
\* gone.
C25_FallbackCompilesAssembledSource ==
  (last.op = "blit" /\ last.fallback) =>
    /\ m_pshader[1].code =
         LoadShaderOptions(InitStages(PresetCode(""), PresetStages("")),
                           LoadShader(""), m_prev_samples).text
    /\ Find(m_pshader[1].code, <<"void ", "main">> \o s_hlsl_entry, 1) # 0
    /\ Find(m_pshader[1].code, PresetCode(""), 1) = 0

\* a call that fell back with multisampling on
C25_Witness ==
  /\ last.op = "blit" /\ last.fallback
  /\ m_prev_samples = 4
  /\ m_pshader[1] # NullPShader

\* the images that exist on the device
LiveImages(imgs) == {i \in DOMAIN imgs : imgs[i].live}

RECURSIVE ReplayImages(_, _, _)
\* the image events of trace E from position k on, applied to the set
\* live of existing images: ok is false when an image that does not exist
\* (or the null image) is released, or one that exists is created
ReplayImages(E, k, live) ==
  IF k > Len(E) THEN [ok |-> TRUE, live |-> live]
  ELSE IF E[k].kind # "image" THEN ReplayImages(E, k + 1, live)
  ELSE IF E[k].ev = "release"
       THEN IF E[k].id \in live
            THEN ReplayImages(E, k + 1, live \ {E[k].id})
            ELSE [ok |-> FALSE, live |-> live]
       ELSE IF E[k].id \notin live /\ E[k].id # NullImage
            THEN ReplayImages(E, k + 1, live \cup {E[k].id})
            ELSE [ok |-> FALSE, live |-> live]

\* image h is bound while it exists
BoundLive(imgs, h) == h \in DOMAIN imgs /\ imgs[h].live

\* C26: every release is of an image that exists (no double release, no
\* release of null), the images that exist are exactly the ones the engine
\* holds, each in one slot (none leaked), none exists after the teardown,
\* and every image a draw binds as render target or as texture exists.
C26_ImagesReleasedExactlyOnce ==
  [][/\ ReplayImages(last'.events, 1, LiveImages(images)).ok
     /\ ReplayImages(last'.events, 1, LiveImages(images)).live
          = LiveImages(images')
     /\ LiveImages(images') = {m_stageOutput'[i] : i \in 1..Len(m_stageOutput')}
     /\ Cardinality(LiveImages(images')) = Len(m_stageOutput')
     /\ ~alive' => LiveImages(images') = {}
     /\ \A k \in 1..Len(last'.draws) :
          /\ \/ last'.draws[k].target = DestRTV
             \/ BoundLive(images', last'.draws[k].target)
          /\ \A j \in 1..Len(last'.draws[k].inputs) :
               BoundLive(images', last'.draws[k].inputs[j])]_vars

\* the teardown after a multi-stage call: two images were created,
\* bound and released
C26_Witness ==
  /\ last.op = "destroy" /\ ~alive
  /\ Cardinality({k \in 1..Len(last.events) :
                    last.events[k] \in {ImageEvent("release", 1),
                                        ImageEvent("release", 2)}}) = 2
  /\ LiveImages(images) = {}

\* C27 as stated: whenever the upload step maps the option buffer (the
\* configuration is dirty and has options), the buffer LoadShaderOptions
\* created is not null.
C27_MappedBufferExists ==
  (packing.done /\ packing.maps) => packing.m_options # NullBuffer

\* the option buffer buf holds the value of every component of every
\* option of opts where the upload loop stores it
BufferHoldsValues(buf, opts) ==
  \A k \in 1..Len(opts) :
    \A j \in 1..(needed_size(opts[k]) \div WordSize) :
      buf.words[UploadOffsets(opts, 1, 0)[k] \div WordSize + j]
        = [opt |-> k, comp |-> j, val |-> opts[k].val]

C29_TargetNeverAnInput ==
  last.op = "blit" =>
    /\ Len(last.bindings) = Len(last.draws)
    /\ \A i \in 1..Len(last.draws) :
         /\ \A s \in TextureSlots :
              last.bindings[i].draw[s] # last.draws[i].target
         /\ last.bindings[i].draw[9] = SrcTexture
         /\ last.bindings[i].draw[10] = last.args[1].src_texture_depth
         /\ \A k \in 1..Len(last.draws[i].inputs) :
              last.bindings[i].draw[10 + k] = last.draws[i].inputs[k]
         /\ \A s \in 11..14 : last.bindings[i].after[s] = NullImage
    /\ last.bound = NoSlots

\* a three-stage call with a depth texture: the last stage drew with two
\* inputs bound
C29_Witness ==
  /\ last.op = "blit" /\ Len(last.draws) = 3
  /\ last.args[1].src_texture_depth = DepthTexture
  /\ last.bindings[3].draw[11] # NullImage
  /\ last.bindings[3].draw[12] # NullImage
  /\ last.bindings[3].draw[11] # last.bindings[3].draw[12]
  /\ last.draws[3].target = DestRTV
  /\ last.bound = NoSlots

\* the stage list has a stage, no stage has more than four inputs, and
\* every input names an earlier stage
WellFormedStages(stages) ==
  /\ Len(stages) >= 1
  /\ \A i \in 1..Len(stages) :
       /\ Len(stages[i].m_inputs) <= 4
       /\ \A k \in 1..Len(stages[i].m_inputs) :
            stages[i].m_inputs[k] \in 0..(i - 2)

\* C30: after any sequence of recompilations and fallbacks a call on a
\* configuration with a stage, at most four inputs per stage and inputs
\* naming earlier stages uses only indices in range: there is one program
\* per stage, every stage but the last and every declared input addresses
\* an image that exists, and the inputs are written into entries 2..5 of
\* the view array only.
C30_IndicesInRange ==
  (last.op = "blit" /\ WellFormedStages(m_config.stages)) =>
    /\ Len(m_pshader) = Len(m_config.stages)
    /\ Len(last.draws) = Len(m_config.stages)
    /\ \A i \in 1..Len(m_config.stages) :
         /\ i < Len(m_config.stages) =>
              /\ i \in 1..Len(m_stageOutput)
              /\ m_stageOutput[i] \in DOMAIN images
              /\ images[m_stageOutput[i]].live
         /\ i > 1 =>
              \A k \in 1..Len(m_config.stages[i].m_inputs) :
                /\ m_config.stages[i].m_inputs[k] + 1 \in 1..Len(m_stageOutput)
                /\ m_stageOutput[m_config.stages[i].m_inputs[k] + 1]
                     \in DOMAIN images
                /\ images[m_stageOutput[m_config.stages[i].m_inputs[k] + 1]]
                     .live
         /\ last.bindings[i].written \subseteq 2..5

\* a call on the preset whose last stage has four inputs: entries 2..5 of
\* the view array were written
C30_Witness ==
  /\ last.op = "blit" /\ m_config.shader = "four"
  /\ Len(m_pshader) = 2 /\ Len(m_stageOutput) = 1
  /\ last.bindings[2].written = 2..5
  /\ last.bindings[2].draw[14] = m_stageOutput[1]

====
